---- MODULE Spec2Model ----
(***************************************************************************)
(* A model of vgmck-rs, the MML -> VGM compiler.                           *)
(*                                                                         *)
(* The module holds several specifications over one set of variables:      *)
(*   SpecDelay  - the delay encoder (vgm/delay.rs)                         *)
(*   SpecQueue  - the event queue (compiler/event.rs)                      *)
(*   SpecDriver - the chip drivers' register writes (chips/*.rs)           *)
(*   Spec       - a whole compilation (compiler/mod.rs, vgm/writer.rs)     *)
(*   SpecGd3    - a GD3 tag written and read back (vgm/gd3.rs, reader.rs)  *)
(* Each specification leaves the variables of the others untouched.        *)
(***************************************************************************)
EXTENDS Integers, Sequences, FiniteSets, TLC

VARIABLES
    delay,      \* delay encoder: [duration, commands, returned]
    queue,      \* event queue:   [events, inserted]
    drv,        \* one chip driver and the registers its writes reach
    job,        \* one run of Compiler::compile_file, input to output file
    tag         \* one GD3 tag: generated from a metadata, parsed by the reader

vars == <<delay, queue, drv, job, tag>>

(***************************************************************************)
(* Small helpers                                                           *)
(***************************************************************************)
Max(a, b) == IF a >= b THEN a ELSE b

RECURSIVE SumSeq(_)
SumSeq(s) == IF s = <<>> THEN 0 ELSE Head(s) + SumSeq(Tail(s))

RECURSIVE Flatten(_)
Flatten(ss) == IF ss = <<>> THEN <<>> ELSE Head(ss) \o Flatten(Tail(ss))

\* Bitwise operators on naturals, and the casts of the source.  The operators
\* work on hexadecimal digits; the tables hold them for one digit.
RECURSIVE BitAnd2(_, _)
BitAnd2(a, b) ==
    IF a = 0 \/ b = 0 THEN 0
    ELSE (a % 2) * (b % 2) + 2 * BitAnd2(a \div 2, b \div 2)

RECURSIVE BitOr2(_, _)
BitOr2(a, b) ==
    IF a = 0 THEN b ELSE IF b = 0 THEN a
    ELSE Max(a % 2, b % 2) + 2 * BitOr2(a \div 2, b \div 2)

And4 == [a \in 0..15 |-> [b \in 0..15 |-> BitAnd2(a, b)]]
Or4  == [a \in 0..15 |-> [b \in 0..15 |-> BitOr2(a, b)]]

RECURSIVE BitAnd(_, _)
BitAnd(a, b) ==
    IF a = 0 \/ b = 0 THEN 0
    ELSE And4[a % 16][b % 16] + 16 * BitAnd(a \div 16, b \div 16)

RECURSIVE BitOr(_, _)
BitOr(a, b) ==
    IF a = 0 THEN b ELSE IF b = 0 THEN a
    ELSE Or4[a % 16][b % 16] + 16 * BitOr(a \div 16, b \div 16)

BitXor(a, b) == BitOr(a, b) - BitAnd(a, b)

\* bit k of x
Bit(x, k) == (x \div (2 ^ k)) % 2

Shl(a, n) == a * (2 ^ n)
Shr(a, n) == a \div (2 ^ n)
U8(x)  == x % 256          \* `x as u8`
Not8(x) == 255 - x         \* `!x` on a u8

(***************************************************************************)
(* vgm/delay.rs                                                            *)
(***************************************************************************)
WAIT_NNNN   == 97     \* 0x61
WAIT_60TH   == 98     \* 0x62
WAIT_50TH   == 99     \* 0x63
END         == 102    \* 0x66
WAIT_N_BASE == 112    \* 0x70

\* The inputs of the delay encoder that are enumerated: 0..MaxDuration.
MaxDuration == 200000

InRange(x, lo, hi) == x >= lo /\ x <= hi

\* A slip in the short-wait branch: the "- 1" of 0x70 + (d - 1) is left out.
RECURSIVE generate_delay_short_off_by_one(_)
generate_delay_short_off_by_one(duration) ==
    IF duration = 0 THEN <<>>
    ELSE IF InRange(duration, 735, 751) \/ duration = 1470 \/ duration = 1617
            \/ InRange(duration, 65536, 67152)
    THEN <<WAIT_60TH>> \o generate_delay_short_off_by_one(duration - 735)
    ELSE IF InRange(duration, 882, 898) \/ duration = 1764
            \/ InRange(duration, 67153, 67299)
    THEN <<WAIT_50TH>> \o generate_delay_short_off_by_one(duration - 882)
    ELSE IF duration <= 16
    THEN <<WAIT_N_BASE + duration>>
    ELSE IF duration <= 32
    THEN <<WAIT_N_BASE + 15>> \o generate_delay_short_off_by_one(duration - 16)
    ELSE IF duration <= 65535
    THEN <<WAIT_NNNN, duration % 256, (duration \div 256) % 256>>
    ELSE <<WAIT_NNNN, 255, 255>> \o generate_delay_short_off_by_one(duration - 65535)

\* generate_delay: the while loop over the remaining duration.
RECURSIVE generate_delay(_)
generate_delay(duration) ==
    IF duration = 0 THEN <<>>
    ELSE IF InRange(duration, 735, 751) \/ duration = 1470 \/ duration = 1617
            \/ InRange(duration, 65536, 67152)
    THEN <<WAIT_60TH>> \o generate_delay(duration - 735)
    ELSE IF InRange(duration, 882, 898) \/ duration = 1764
            \/ InRange(duration, 67153, 67299)
    THEN <<WAIT_50TH>> \o generate_delay(duration - 882)
    ELSE IF duration <= 16
    THEN <<WAIT_N_BASE + duration - 1>>
    ELSE IF duration <= 32
    THEN <<WAIT_N_BASE + 15>> \o generate_delay(duration - 16)
    ELSE IF duration <= 65535
    THEN <<WAIT_NNNN, duration % 256, (duration \div 256) % 256>>
    ELSE <<WAIT_NNNN, 255, 255>> \o generate_delay(duration - 65535)

\* The reader's decoding of the wait commands, summed over a byte sequence.
\* Bytes that are no wait command count for nothing.
RECURSIVE WaitSamples(_)
WaitSamples(bytes) ==
    IF bytes = <<>> THEN 0
    ELSE LET op == Head(bytes) IN
         IF op = WAIT_NNNN /\ Len(bytes) >= 3
         THEN bytes[2] + 256 * bytes[3] + WaitSamples(SubSeq(bytes, 4, Len(bytes)))
         ELSE IF op = WAIT_60TH THEN 735 + WaitSamples(Tail(bytes))
         ELSE IF op = WAIT_50TH THEN 882 + WaitSamples(Tail(bytes))
         ELSE IF InRange(op, 112, 127) THEN (op - 112) + 1 + WaitSamples(Tail(bytes))
         ELSE WaitSamples(Tail(bytes))

DelayIdle == [duration |-> 0, commands |-> <<>>, returned |-> FALSE]

DelayInit ==
    delay \in {[duration |-> d, commands |-> <<>>, returned |-> FALSE] :
                  d \in 0..MaxDuration}

\* One call of generate_delay(duration).
GenerateDelay ==
    /\ ~delay.returned
    /\ delay' = [delay EXCEPT !.commands = generate_delay(delay.duration),
                              !.returned = TRUE]
    /\ UNCHANGED <<queue, drv, job, tag>>

(***************************************************************************)
(* compiler/event.rs                                                       *)
(***************************************************************************)
\* Bounds of the event queue specification.
MaxTime    == 2
MaxInserts == 4
MaxValue   == 1

\* Event::new
Event(time, channel, data) == [time |-> time, channel |-> channel, data |-> data]

\* EventData::Chip(ChipEvent::new(..)) and EventData::Raw(..)
ChipEvent(event_type, value1, value2) ==
    [kind |-> "chip", event_type |-> event_type, value1 |-> value1, value2 |-> value2]
RawEvent(byte) == [kind |-> "raw", byte |-> byte]

\* EventQueue::new: an empty BTreeMap<i64, Vec<Event>>, modelled as a function
\* whose domain is the set of keys present.
EmptyQueue == <<>>

\* A slip in insert: the event is put in front of the events of its time.
insert_prepend(events, event) ==
    IF event.time \in DOMAIN events
    THEN [events EXCEPT ![event.time] = <<event>> \o @]
    ELSE [t \in (DOMAIN events) \cup {event.time} |->
              IF t = event.time THEN <<event>> ELSE events[t]]

\* EventQueue::insert: entry(time).or_default().push(event)
insert(events, event) ==
    IF event.time \in DOMAIN events
    THEN [events EXCEPT ![event.time] = Append(@, event)]
    ELSE [t \in (DOMAIN events) \cup {event.time} |->
              IF t = event.time THEN <<event>> ELSE events[t]]

\* EventQueue::iter: values().flatten(), the keys in ascending order.
RECURSIVE IterFrom(_, _)
IterFrom(events, keys) ==
    IF keys = {} THEN <<>>
    ELSE LET k == CHOOSE x \in keys : \A y \in keys : x <= y
         IN  events[k] \o IterFrom(events, keys \ {k})

iter(events) == IterFrom(events, DOMAIN events)

\* EventQueue::last_time
last_time(events) ==
    IF DOMAIN events = {} THEN -1
    ELSE CHOOSE x \in DOMAIN events : \A y \in DOMAIN events : y <= x

QueueIdle == [events |-> EmptyQueue, inserted |-> <<>>]

QueueInit == queue = QueueIdle

\* One call of EventQueue::insert; `inserted` records the calls in order.
Insert ==
    /\ Len(queue.inserted) < MaxInserts
    /\ \E t \in 0..MaxTime, v \in 0..MaxValue :
          LET e == Event(t, 0, ChipEvent(2, v, 0)) IN
          queue' = [events   |-> insert(queue.events, e),
                    inserted |-> Append(queue.inserted, e)]
    /\ UNCHANGED <<delay, drv, job, tag>>

\* One call of EventQueue::clear
Clear ==
    /\ queue.inserted # <<>>
    /\ queue' = QueueIdle
    /\ UNCHANGED <<delay, drv, job, tag>>

(***************************************************************************)
(* chips/sn76489.rs                                                        *)
(*                                                                         *)
(* A driver operation returns the new driver state and its write requests  *)
(* in program order.  A request is a place where the code has a write that *)
(* a comparison with a shadow value may suppress; `emitted` says whether    *)
(* the bytes reach the data section.  With cache = FALSE the comparisons   *)
(* with the shadow values are left out (every requested write is emitted). *)
(***************************************************************************)
Req(bytes, reg, emitted) == [bytes |-> bytes, reg |-> reg, emitted |-> emitted]

SN76489_DEFAULT_CLOCK == 3579545

\* Sn76489::new
SnNew ==
    [clock  |-> SN76489_DEFAULT_CLOCK,
     stereo |-> [c \in 0..1 |-> 255],
     dual   |-> FALSE,
     vol    |-> [c \in 0..1 |-> [d \in 0..3 |-> -1]],
     tone   |-> [c \in 0..1 |-> [d \in 0..3 |-> -1]],
     noteon |-> [c \in 0..1 |-> [d \in 0..3 |-> FALSE]],
     ltone  |-> [c \in 0..1 |-> -1]]

\* Sn76489::file_begin: every shadow is reset; nothing is written.
SnFileBegin(st) ==
    [st |-> [SnNew EXCEPT !.clock = st.clock], reqs |-> <<>>]

\* Sn76489::loop_start: "Nothing special needed".
SnLoopStart(st) == st

\* Sn76489::file_end: the value of the header's SN76489 clock field.
SnFileEnd(st) == IF st.dual THEN st.clock + 1073741824 ELSE st.clock

\* Sn76489::set_macro, note_on, note_change, note_off, rest, direct
SnSetMacro(command, value) ==
    IF command = "Volume" THEN <<ChipEvent(2, value, 0)>>
    ELSE IF command = "Panning" THEN <<ChipEvent(1, value, 0)>>
    ELSE <<>>
SnNoteOn(note)   == <<ChipEvent(3, note, 0)>>
SnNoteOff        == <<ChipEvent(4, 0, 0)>>
SnDirect(address) == <<ChipEvent(0, address, 0)>>

\* The volume byte (0x9F ^ x as u8) | (d << 5)
SnVolByte(x, d) == BitOr(BitXor(159, U8(x)), Shl(d, 5))

\* Sn76489::send, event type 1 (GG stereo)
SnSendStereo(st, event, c, d, cache) ==
    LET x0 == st.stereo[c]
        x1 == BitAnd(x0, Not8(Shl(17, d)))
        x2 == IF event.value1 <= 0 THEN BitOr(x1, Shl(16, d)) ELSE x1
        x  == IF event.value1 >= 0 THEN BitOr(x2, Shl(1, d)) ELSE x2
        emit == ~cache \/ x # st.stereo[c]
        stereo_cmd == IF c > 0 THEN 63 ELSE 79
    IN  [st   |-> IF emit
                  THEN [st EXCEPT !.stereo[c] = x, !.ltone[c] = -1]
                  ELSE st,
         reqs |-> <<Req(<<stereo_cmd, U8(event.value1)>>, <<"stereo", c, 0>>, emit)>>]

\* Sn76489::send, event type 2 (volume)
SnSendVolume(st, event, c, d, cmd_byte, cache) ==
    LET x == event.value1
        emit == ~cache \/ x # st.vol[c][d]
        st1 == IF st.noteon[c][d] /\ emit THEN [st EXCEPT !.ltone[c] = -1] ELSE st
    IN  [st   |-> [st1 EXCEPT !.vol[c][d] = x],
         reqs |-> IF st.noteon[c][d]
                  THEN <<Req(<<cmd_byte, SnVolByte(x, d)>>, <<"vol", c, d>>, emit)>>
                  ELSE <<>>]

\* Sn76489::send, event type 3 (note on / note change)
SnSendNote(st, event, chip_sub, c, d, cmd_byte, cache) ==
    LET note == event.value1
        volFirst == st.vol[c][d] > 0 /\ ~st.noteon[c][d]
        r1 == IF volFirst
              THEN <<Req(<<cmd_byte, SnVolByte(st.vol[c][d], d)>>, <<"vol", c, d>>, TRUE)>>
              ELSE <<>>
        lt1 == IF volFirst THEN -1 ELSE st.ltone[c]
        old == st.tone[c][d]
        changed == (note % 16) # (old % 16) \/ (note # old /\ lt1 # d)
        latch == ~cache \/ changed
        r2 == <<Req(<<cmd_byte, 128 + (note % 16) + Shl(d, 5)>>, <<"tone", c, d>>, latch)>>
        lt2 == IF latch THEN d ELSE lt1
        r3 == IF chip_sub = 0
              THEN <<Req(<<cmd_byte, (note \div 16) % 64>>, <<"tone", c, d>>, lt2 = d)>>
              ELSE <<>>
    IN  [st   |-> [st EXCEPT !.noteon[c][d] = TRUE, !.ltone[c] = lt2,
                             !.tone[c][d] = note],
         reqs |-> r1 \o r2 \o r3]

\* Sn76489::send, event type 4 (note off)
SnSendNoteOff(st, c, d, cmd_byte) ==
    LET off == st.noteon[c][d] /\ st.vol[c][d] > 0
        st1 == IF off THEN [st EXCEPT !.ltone[c] = -1] ELSE st
    IN  [st   |-> [st1 EXCEPT !.noteon[c][d] = FALSE],
         reqs |-> IF off
                  THEN <<Req(<<cmd_byte, 159 + Shl(d, 5)>>, <<"vol", c, d>>, TRUE)>>
                  ELSE <<>>]

\* Sn76489::send
SnSend(st, event, chip_sub, chan_sub, cache) ==
    LET c == IF chip_sub > 0
             THEN (IF chan_sub >= 1 THEN 1 ELSE 0)
             ELSE (IF chan_sub >= 3 THEN 1 ELSE 0)
        d == IF chip_sub > 0 THEN 3 ELSE chan_sub % 3
        st1 == IF c > 0 THEN [st EXCEPT !.dual = TRUE] ELSE st
        cmd_byte == IF c > 0 THEN 48 ELSE 80
    IN  IF chip_sub > 1 \/ chan_sub > 5 THEN [st |-> st1, reqs |-> <<>>]
        ELSE IF event.event_type = 0
        THEN [st   |-> [st1 EXCEPT !.ltone[c] = -1],
              reqs |-> <<Req(<<cmd_byte, U8(event.value1)>>, <<"direct", c, 0>>, TRUE)>>]
        ELSE IF event.event_type = 1 THEN SnSendStereo(st1, event, c, d, cache)
        ELSE IF event.event_type = 2 THEN SnSendVolume(st1, event, c, d, cmd_byte, cache)
        ELSE IF event.event_type = 3
        THEN SnSendNote(st1, event, chip_sub, c, d, cmd_byte, cache)
        ELSE IF event.event_type = 4 THEN SnSendNoteOff(st1, c, d, cmd_byte)
        ELSE [st |-> st1, reqs |-> <<>>]

\* The SN76489 as the data section's bytes drive it: 0x50 / 0x30 write a byte
\* to the first / second chip (a latch byte selects a register and sets its
\* low four bits, a data byte sets the rest of the latched register),
\* 0x4F / 0x3F write the stereo port.  A pristine chip has nothing latched,
\* unwritten registers and every stereo bit set.
SnHwNew ==
    [tone   |-> [c \in 0..1 |-> [d \in 0..3 |-> [lo |-> -1, hi |-> -1]]],
     vol    |-> [c \in 0..1 |-> [d \in 0..3 |-> -1]],
     stereo |-> [c \in 0..1 |-> 255],
     latch  |-> [c \in 0..1 |-> <<-1, -1>>]]

SnHwWrite(hw, bytes) ==
    LET cmd == bytes[1]
        b   == bytes[2]
        c   == IF cmd = 48 \/ cmd = 63 THEN 1 ELSE 0
    IN  IF cmd = 79 \/ cmd = 63 THEN [hw EXCEPT !.stereo[c] = b]
        ELSE IF b >= 128
        THEN LET ch == (b \div 32) % 4
                 ty == (b \div 16) % 2
                 h1 == [hw EXCEPT !.latch[c] = <<ch, ty>>]
             IN  IF ty = 1 THEN [h1 EXCEPT !.vol[c][ch] = b % 16]
                 ELSE [h1 EXCEPT !.tone[c][ch].lo = b % 16]
        ELSE LET l == hw.latch[c] IN
             IF l[1] = -1 THEN hw
             ELSE IF l[2] = 1 THEN [hw EXCEPT !.vol[c][l[1]] = b % 16]
             ELSE [hw EXCEPT !.tone[c][l[1]].hi = b % 64]

\* The registers of the chip, without the latch.
SnHwRegs(hw) == [tone |-> hw.tone, vol |-> hw.vol, stereo |-> hw.stereo]

(***************************************************************************)
(* chips/opn2.rs                                                           *)
(***************************************************************************)
\* Vec::get(i).copied().unwrap_or(0) on envelope data (index from 0)
Get(data, i) == IF i + 1 <= Len(data) THEN data[i + 1] ELSE 0

\* A shadow array whose entries are all -1 ("unknown") until written: only
\* the written entries are kept.
Shadow(mem, address) == IF address \in DOMAIN mem THEN mem[address] ELSE -1
SetShadow(mem, address, data) == (address :> data) @@ mem

\* macro_env[3][i].data: instrument 1 is the patch of a four-operator voice,
\* every other envelope is empty (MacroEnvelope::default).
OptionData(i) ==
    IF i = 1
    THEN <<1, 0, 31, 0, 0, 15, 0,  1, 0, 31, 0, 0, 15, 0,
           1, 0, 31, 0, 0, 15, 0,  1, 0, 31, 0, 0, 15, 0,  7, 192>>
    ELSE <<>>

YM2612_DEFAULT_CLOCK == 7670454

\* Opn2::new
Opn2New ==
    [clock  |-> YM2612_DEFAULT_CLOCK, nor |-> 0, sup |-> 0, dual |-> FALSE,
     assign |-> [i \in 0..11 |-> <<0, 1, 4, 5, 8, 9, 12, 13, 14, 10, 6, 2>>[i + 1]],
     mem    |-> <<>>,
     vol    |-> [i \in 0..11 |-> 127],
     pan    |-> [i \in 0..11 |-> 192]]

\* Opn2::opn2_put
opn2_put(st, address, data, cache) ==
    LET changed == \/ Shadow(st.mem, address) # data
                   \/ (Bit(address, 7) = 1 /\ Bit(address, 5) = 1)   \* & 0xA0 == 0xA0
        routed  == st.dual \/ Bit(address, 9) = 0                    \* & 0x200 == 0
        emit    == (~cache \/ changed) /\ routed
        cmd     == (IF Bit(address, 9) # 0 THEN 162 ELSE 82) + Bit(address, 8)
    IN  [st   |-> IF emit THEN [st EXCEPT !.mem = SetShadow(@, address, data)] ELSE st,
         reqs |-> <<Req(<<cmd, address % 256, data>>, <<"opn2", address, 0>>, emit)>>]

\* A run of opn2_put calls, puts = <<address, data>> pairs in program order
\* (the first half of the run, then the second half on the state it leaves).
RECURSIVE Opn2PutAll(_, _, _)
Opn2PutAll(st, puts, cache) ==
    IF puts = <<>> THEN [st |-> st, reqs |-> <<>>]
    ELSE IF Len(puts) = 1 THEN opn2_put(st, puts[1][1], puts[1][2], cache)
    ELSE LET h  == Len(puts) \div 2
             r1 == Opn2PutAll(st, SubSeq(puts, 1, h), cache)
             r2 == Opn2PutAll(r1.st, SubSeq(puts, h + 1, Len(puts)), cache)
         IN  [reqs |-> r1.reqs \o r2.reqs, st |-> r2.st]

Opn2Ad(st, ch) ==
    BitOr(Shl(BitAnd(st.assign[ch], 12), 6), BitAnd(st.assign[ch], 3))

Opn2KeyAddr(st, ch) == BitOr(Shl(BitAnd(st.assign[ch], 8), 5), 40)

Clamp(k, lo, hi) == IF k < lo THEN lo ELSE IF k > hi THEN hi ELSE k

\* Opn2::update_oper: the puts it makes, in order.
Opn2UpdateOper(st, mo, ch, oper_data) ==
    LET ad  == Opn2Ad(st, ch)
        alg == Get(oper_data, 28) % 8
        aff == [i \in 0..3 |->
                  IF i = 3 THEN 16
                  ELSE IF i = 2 THEN (IF alg > 3 THEN 16 ELSE 0)
                  ELSE IF i = 1 THEN (IF alg > 4 THEN 16 ELSE 0)
                  ELSE (IF alg = 7 THEN 16 ELSE 0)]
        op_aff(i) == IF mo THEN Get(oper_data, i * 3 + 32) ELSE aff[i]
        k(i, j) == LET k0 == Get(oper_data, i * 7 + j) IN
                   IF j = 1
                   THEN Clamp(k0 + Shr(st.vol[ch] * op_aff(i), 4), 0, 127)
                   ELSE k0
        put(n) == LET i == n \div 7
                      j == n % 7
                  IN  <<BitOr(BitOr(ad, Shl(i, 2)), Shl(j + 3, 4)), U8(k(i, j))>>
    IN  [n \in 1..28 |-> put(n - 1)]
        \o <<<<BitOr(ad, 176), U8(Get(oper_data, 28))>>,
             <<BitOr(ad, 180), BitOr(U8(Get(oper_data, 29)), st.pan[ch])>>>>

\* Opn2::update_note: the puts it makes, in order.
Opn2UpdateNote(st, mo, ch, note, oper_data) ==
    LET ad == Opn2Ad(st, ch)
        adAt(i) == IF i = 0 THEN ad ELSE BitOr(ad, 4)
        h(i) == LET op_note  == Get(oper_data, i * 3 + 31)
                    op_block == Get(oper_data, i * 3 + 30)
                IN  BitOr(IF op_note # 0 THEN op_note ELSE note, Shl(op_block, 11))
        pair(i) == <<<<BitOr(adAt(i), 164) + i, U8(Shr(h(i), 8))>>,
                     <<BitOr(adAt(i), 160) + i, BitAnd(h(i), 255)>>>>
    IN  IF mo THEN pair(0) \o pair(1) \o pair(2) \o pair(3)
        ELSE <<<<BitOr(ad, 164), U8(Shr(note, 8))>>,
               <<BitOr(ad, 160), BitAnd(note, 255)>>>>

\* Opn2::file_begin: the shadows are reset and the assignment table is built
\* from the number of supplementary channels; nor / sup / dual are kept.
Opn2FileBegin(st) ==
    LET sup  == st.sup
        list == <<0, 1>> \o (IF sup < 1 THEN <<2>> ELSE <<>>)
                \o <<4, 5>> \o (IF sup < 2 THEN <<6>> ELSE <<>>)
                \o <<8, 9>> \o (IF sup < 3 THEN <<10>> ELSE <<>>)
                \o <<12, 13>> \o (IF sup < 4 THEN <<14>> ELSE <<>>)
    IN  [st |-> [st EXCEPT !.mem = <<>>,
                           !.vol = [i \in 0..11 |-> 127],
                           !.pan = [i \in 0..11 |-> 192],
                           !.assign = [i \in 0..11 |->
                                          IF i + 1 <= Len(list) THEN list[i + 1]
                                          ELSE st.assign[i]]],
         reqs |-> <<>>]

\* Opn2::start_channel_with_info
Opn2StartChannelWithInfo(st, chip_sub, chan_sub) ==
    LET y == chan_sub + 1 IN
    IF chip_sub # 0
    THEN (IF y > st.sup THEN [st EXCEPT !.sup = y] ELSE st)
    ELSE (IF y > st.nor THEN [st EXCEPT !.nor = y] ELSE st)

\* Opn2::file_end: dual is decided here; the header's YM2612 clock field.
Opn2FileEndDual(st) == st.sup > 2 \/ st.nor > 6 - st.sup
Opn2FileEnd(st) ==
    IF Opn2FileEndDual(st) THEN st.clock + 1073741824 ELSE st.clock

\* Opn2::loop_start: empty.
Opn2LoopStart(st) == st

\* Opn2::set_macro, note_on, note_change, note_off, direct
Opn2SetMacro(command, value) ==
    IF command = "Volume" THEN <<ChipEvent(24576, BitXor(U8(value), 127), 0)>>
    ELSE IF command = "Panning"
    THEN <<ChipEvent(28672, IF value < 0 THEN 128 ELSE IF value > 0 THEN 64 ELSE 192, 0)>>
    ELSE IF command = "Tone" THEN <<ChipEvent(20480, value % 256, 0)>>
    ELSE IF command = "Global" THEN <<ChipEvent(4130, value, 0)>>
    ELSE <<>>
Opn2NoteOn(note, octave)     == <<ChipEvent(12288, BitOr(note, Shl(octave, 11)), 0)>>
Opn2NoteChange(note, octave) == <<ChipEvent(16384, BitOr(note, Shl(octave, 11)), 0)>>
Opn2NoteOff                  == <<ChipEvent(8192, 0, 0)>>
Opn2Direct(address, value)   == <<ChipEvent(address, value, 0)>>

\* Opn2::send_with_macro_env; OptionData(i) is macro_env[3][i].data.
Opn2Send(st, event, chip_sub, chan_sub, cache) ==
    LET mo == chip_sub # 0
        ch == IF mo THEN 12 - chan_sub ELSE chan_sub
        oper_data == OptionData(IF event.value2 < 255 THEN event.value2 ELSE 255)
        ty == Shr(event.event_type, 12)
        v8 == U8(event.value1)
    IN  IF ty = 0
        THEN Opn2PutAll(st, <<<<BitAnd(event.event_type, 1023), v8>>>>, cache)
        ELSE IF ty = 1
        THEN LET addr == BitAnd(event.event_type, 255) IN
             Opn2PutAll(st, <<<<addr, v8>>, <<BitOr(addr, 256), v8>>,
                              <<BitOr(addr, 512), v8>>, <<BitOr(addr, 768), v8>>>>, cache)
        ELSE IF ty = 2
        THEN Opn2PutAll(st, <<<<Opn2KeyAddr(st, ch), BitAnd(st.assign[ch], 7)>>>>, cache)
        ELSE IF ty = 3
        THEN Opn2PutAll(st, Opn2UpdateNote(st, mo, ch, event.value1, oper_data)
                            \o <<<<Opn2KeyAddr(st, ch),
                                   BitOr(240, BitAnd(st.assign[ch], 247))>>>>, cache)
        ELSE IF ty = 4
        THEN Opn2PutAll(st, Opn2UpdateNote(st, mo, ch, event.value1, oper_data), cache)
        ELSE IF ty = 5
        THEN Opn2PutAll(st, Opn2UpdateOper(st, mo, ch, OptionData(event.value1 % 256)), cache)
        ELSE IF ty = 6
        THEN LET st1 == [st EXCEPT !.vol[ch] = v8] IN
             Opn2PutAll(st1, Opn2UpdateOper(st1, mo, ch, oper_data), cache)
        ELSE IF ty = 7
        THEN LET st1 == [st EXCEPT !.pan[ch] = v8] IN
             Opn2PutAll(st1, Opn2UpdateOper(st1, mo, ch, oper_data), cache)
        ELSE [st |-> st, reqs |-> <<>>]

(***************************************************************************)
(* chips/opl2.rs                                                           *)
(***************************************************************************)
YM3812_DEFAULT_CLOCK == 3579545

\* The operator offset table OPER
OPER == [d \in 0..8 |-> <<0, 1, 2, 8, 9, 10, 16, 17, 18>>[d + 1]]

\* Opl2::new; memory, instr and vol keep their written entries only
\* (memory is -1, instr and vol are 0 where nothing was written).
Opl2New ==
    [clock |-> YM3812_DEFAULT_CLOCK, memory |-> <<>>, dual |-> 0,
     subc |-> [x \in 0..1 |-> 0], instr |-> <<>>, vol |-> <<>>]

Table0(t, a, b) == IF <<a, b>> \in DOMAIN t THEN t[<<a, b>>] ELSE 0

\* Opl2::write_opl
write_opl(st, chip, address, value, cache) ==
    LET emit == ~cache \/ Shadow(st.memory, <<chip, address>>) # value
        cmd  == IF chip # 0 THEN 170 ELSE 90
    IN  [st   |-> IF emit
                  THEN [st EXCEPT !.memory = SetShadow(@, <<chip, address>>, value)]
                  ELSE st,
         reqs |-> <<Req(<<cmd, U8(address), value>>, <<"opl2", chip, address>>, emit)>>]

\* Opl2::set_opl
set_opl(st, chip, address, mask, set, cache) ==
    LET current == U8(Max(Shadow(st.memory, <<chip, address>>), 0))
        value   == BitOr(BitAnd(current, Not8(mask)), BitAnd(set, mask))
    IN  write_opl(st, chip, address, value, cache)

\* A run of write_opl calls, writes = <<chip, address, value>> in program
\* order (the first half of the run, then the second half on the state it
\* leaves).
RECURSIVE Opl2WriteAll(_, _, _)
Opl2WriteAll(st, writes, cache) ==
    IF writes = <<>> THEN [st |-> st, reqs |-> <<>>]
    ELSE IF Len(writes) = 1
    THEN write_opl(st, writes[1][1], writes[1][2], writes[1][3], cache)
    ELSE LET h  == Len(writes) \div 2
             r1 == Opl2WriteAll(st, SubSeq(writes, 1, h), cache)
             r2 == Opl2WriteAll(r1.st, SubSeq(writes, h + 1, Len(writes)), cache)
         IN  [reqs |-> r1.reqs \o r2.reqs, st |-> r2.st]

\* Opl2::set_instrument: the writes it makes, in order.
Opl2SetInstrument(st, c, ch, o, inst_data, v) ==
    LET s  == BitAnd(o, 7) \div 3
        bd_mode == BitAnd(U8(Max(Shadow(st.memory, <<c, 189>>), 0)), 32) # 0
        h  == (bd_mode /\ o > 16) \/ (Get(inst_data, 10) % 2 # 0) \/ s # 0
        v0 == v + (Get(inst_data, BitOr(s, 2)) % 64)
        vl == IF v0 > 63 THEN 63 ELSE v0
        tl == IF h
              THEN BitOr(BitAnd(U8(Get(inst_data, BitOr(s, 2))), 192), U8(vl))
              ELSE U8(Get(inst_data, BitOr(s, 2)))
    IN  <<<<c, BitOr(o, 32), U8(Get(inst_data, s))>>,
          <<c, BitOr(o, 64), tl>>,
          <<c, BitOr(o, 96), U8(Get(inst_data, BitOr(s, 4)))>>,
          <<c, BitOr(o, 128), U8(Get(inst_data, BitOr(s, 6)))>>,
          <<c, BitOr(o, 224), U8(Get(inst_data, BitOr(s, 8)))>>>>
        \o (IF s = 0 THEN <<<<c, BitOr(ch, 192), U8(Get(inst_data, 10))>>>> ELSE <<>>)

\* Opl2::file_begin
Opl2FileBegin(st, cache) ==
    LET d0   == IF st.subc[1] = 2 THEN 6 ELSE 9
        dual == IF st.subc[1] < 2 /\ st.subc[0] <= d0 THEN 0 ELSE d0
        chip_count == IF dual # 0 THEN 2 ELSE 1
        init(i) == <<<<i, 1, 32>>, <<i, 8, 0>>>>
                   \o [n \in 1..153 |-> <<i, 31 + n, 0>>]
                   \o <<<<i, 189, IF st.subc[1] > i THEN 32 ELSE 0>>>>
        st1  == [st EXCEPT !.memory = <<>>, !.dual = dual]
    IN  Opl2WriteAll(st1, IF chip_count = 2 THEN init(0) \o init(1) ELSE init(0), cache)

\* Opl2::file_end: the header's YM3812 clock field.
Opl2FileEnd(st) == IF st.dual # 0 THEN st.clock + 1073741824 ELSE st.clock

\* Opl2::loop_start: the shadows of 0xA0..0xAF are invalidated, no others.
Opl2LoopStart(st) ==
    [st EXCEPT !.memory =
        [k \in {x \in DOMAIN st.memory : ~(x[2] >= 160 /\ x[2] < 176)} |-> st.memory[k]]]

\* Opl2::start_channel_with_info
Opl2StartChannelWithInfo(st, chip_sub, chan_sub) ==
    LET x == IF chip_sub # 0 THEN 1 ELSE 0 IN
    IF st.subc[x] <= chan_sub THEN [st EXCEPT !.subc[x] = chan_sub + 1] ELSE st

\* Opl2::set_macro, note_on / note_change, note_off / rest, direct
Opl2SetMacro(command, value) ==
    IF command = "Volume" THEN <<ChipEvent(4, BitAnd(63, 65535 - (value % 65536)), 0)>>
    ELSE IF command = "Tone" THEN <<ChipEvent(3, value % 256, 0)>>
    ELSE IF command = "Global"
    THEN <<ChipEvent(5, Shl(value % 4, 6), Shl(BitAnd(value % 16, 12), 4))>>
    ELSE <<>>
Opl2NoteOn(note, octave) ==
    <<ChipEvent(1, note % 256, BitOr(BitOr(Shr(note, 8) % 4, Shl(octave, 2)), 32))>>
Opl2NoteOff == <<ChipEvent(2, 0, 0)>>
Opl2Direct(address, value) == <<ChipEvent(0, address, value)>>

\* Opl2::send
Opl2SendPlain(st, event, a, b, c, d, cache) ==
    LET v1 == U8(event.value1)
        v2 == U8(event.value2)
    IN  IF event.event_type = 0
        THEN write_opl(st, c, event.value1, v2, cache)
        ELSE IF event.event_type = 1
        THEN LET hat == a = 1 \/ a = 2
                 ch  == IF hat THEN 8 ELSE IF a # 0 THEN 11 - a ELSE d
                 r1  == Opl2WriteAll(st,
                            (IF hat THEN <<<<c, 167, v1>>, <<c, 183, v2>>>> ELSE <<>>)
                            \o <<<<c, BitOr(160, ch), v1>>, <<c, BitOr(176, ch), v2>>>>,
                            cache)
                 r2  == IF a # 0
                        THEN set_opl(r1.st, c, 189, Shl(1, a - 1), 255, cache)
                        ELSE [st |-> r1.st, reqs |-> <<>>]
             IN  [reqs |-> r1.reqs \o r2.reqs, st |-> r2.st]
        ELSE IF event.event_type = 2
        THEN (IF a # 0
              THEN set_opl(st, c, 189, Shl(1, a - 1), 0, cache)
              ELSE set_opl(st, c, BitOr(176, d), 32, 0, cache))
        ELSE IF event.event_type = 3
        THEN [st   |-> [st EXCEPT !.instr = SetShadow(@, <<a, b>>, event.value1)],
              reqs |-> <<>>]
        ELSE IF event.event_type = 4
        THEN [st   |-> [st EXCEPT !.vol = SetShadow(@, <<a, b>>, event.value1)],
              reqs |-> <<>>]
        ELSE IF event.event_type = 5
        THEN LET bd == U8(Max(Shadow(st.memory, <<c, 189>>), 0)) IN
             Opl2WriteAll(st, <<<<c, 189, BitOr(BitAnd(bd, 63), v1)>>, <<c, 8, v2>>>>, cache)
        ELSE [st |-> st, reqs |-> <<>>]

\* Opl2::send_with_macro_env; OptionData(i) is macro_env[3][i].data.
Opl2Send(st, event, chip_sub, chan_sub, cache) ==
    LET a == chip_sub
        b == chan_sub
        c == IF a # 0 THEN b ELSE IF st.dual # 0 /\ b >= st.dual THEN 1 ELSE 0
        d == IF a # 0 THEN 0 ELSE IF st.dual # 0 THEN b % st.dual ELSE b
    IN  IF event.event_type = 3 \/ event.event_type = 4
        THEN LET st1 == IF event.event_type = 3
                        THEN [st EXCEPT !.instr = SetShadow(@, <<a, b>>, event.value1)]
                        ELSE [st EXCEPT !.vol = SetShadow(@, <<a, b>>, event.value1)]
                 i0  == Table0(st1.instr, a, b)
                 inst_data == OptionData(IF i0 < 255 THEN i0 ELSE 255)
                 v   == Table0(st1.vol, a, b)
                 si(ch, o) == Opl2SetInstrument(st1, c, ch, o, inst_data, v)
             IN  Opl2WriteAll(st1,
                    IF a = 1 \/ a = 2 THEN si(7, 17) \o si(8, 21)
                    ELSE IF a = 3 THEN si(8, 18)
                    ELSE IF a = 4 THEN si(7, 17) \o si(7, 20)
                    ELSE IF a = 5 THEN si(6, 16) \o si(6, 19)
                    ELSE si(d, OPER[d]) \o si(d, OPER[d] + 3),
                    cache)
        ELSE Opl2SendPlain(st, event, a, b, c, d, cache)

\* The YM2612 and the YM3812 as the data section's bytes drive them: every
\* command <<cmd, register, value>> stores value in the register of the chip
\* and port that cmd names.  A pristine chip has no register written.  After
\* a run of commands a register holds the value of the last command to it.
FmHwReplay(hw, reqs) ==
    LET em     == {i \in 1..Len(reqs) : reqs[i].emitted}
        key(i) == <<reqs[i].bytes[1], reqs[i].bytes[2]>>
        keys   == {key(i) : i \in em}
        at(k)  == {i \in em : key(i) = k}
        last(k) == CHOOSE i \in at(k) : \A j \in at(k) : j <= i
    IN  [k \in (DOMAIN hw) \cup keys |->
            IF k \in keys THEN reqs[last(k)].bytes[3] ELSE hw[k]]

(***************************************************************************)
(* One driver between file_begin and file_end                              *)
(*                                                                         *)
(* drv holds a driver (st), the bytes it has emitted replayed on a         *)
(* pristine chip (hw), and beside them the same driver run without the     *)
(* shadow comparisons (ref, hwRef).  last holds the write requests of the  *)
(* latest send; first marks a request as the first one to its register     *)
(* since loop_start.                                                       *)
(***************************************************************************)
MaxSends == 3

DrvChips == {"PSG", "OPN2", "OPL2"}

DrvNew(chip) ==
    IF chip = "PSG" THEN SnNew ELSE IF chip = "OPN2" THEN Opn2New ELSE Opl2New

DrvFileBegin(chip, st, cache) ==
    IF chip = "PSG" THEN SnFileBegin(st)
    ELSE IF chip = "OPN2" THEN Opn2FileBegin(st)
    ELSE Opl2FileBegin(st, cache)

DrvLoopStart(chip, st) ==
    IF chip = "PSG" THEN SnLoopStart(st)
    ELSE IF chip = "OPN2" THEN Opn2LoopStart(st)
    ELSE Opl2LoopStart(st)

DrvSend(chip, st, in, cache) ==
    IF chip = "PSG" THEN SnSend(st, in.event, in.chip_sub, in.chan_sub, cache)
    ELSE IF chip = "OPN2"
    THEN Opn2Send(st, in.event, in.chip_sub, in.chan_sub, cache)
    ELSE Opl2Send(st, in.event, in.chip_sub, in.chan_sub, cache)

DrvHwNew(chip) == IF chip = "PSG" THEN SnHwNew ELSE <<>>

DrvHwRegs(chip, hw) == IF chip = "PSG" THEN SnHwRegs(hw) ELSE hw

\* The emitted bytes of reqs replayed on an SN76489, in order.
RECURSIVE SnHwReplay(_, _)
SnHwReplay(hw, reqs) ==
    IF reqs = <<>> THEN hw
    ELSE SnHwReplay(IF Head(reqs).emitted THEN SnHwWrite(hw, Head(reqs).bytes) ELSE hw,
                    Tail(reqs))

DrvReplay(chip, hw, reqs) ==
    IF chip = "PSG" THEN SnHwReplay(hw, reqs) ELSE FmHwReplay(hw, reqs)

\* The events the channel commands produce: what set_macro, note_on, note_off
\* and direct return.
DrvEvents(chip) ==
    LET one(s) == {s[i] : i \in 1..Len(s)} IN
    IF chip = "PSG"
    THEN UNION {one(SnSetMacro("Panning", v)) : v \in {-1, 0}}
         \cup UNION {one(SnSetMacro("Volume", v)) : v \in {0, 8}}
         \cup UNION {one(SnNoteOn(n)) : n \in {254, 428}}
         \cup one(SnNoteOff) \cup one(SnDirect(159))
    ELSE IF chip = "OPN2"
    THEN UNION {one(Opn2SetMacro("Panning", v)) : v \in {-1}}
         \cup UNION {one(Opn2SetMacro("Volume", v)) : v \in {100}}
         \cup UNION {one(Opn2SetMacro("Tone", v)) : v \in {1}}
         \cup UNION {one(Opn2NoteOn(n, 4)) : n \in {644, 722}}
         \cup one(Opn2NoteOff) \cup one(Opn2Direct(40, 0))
    ELSE UNION {one(Opl2SetMacro("Volume", v)) : v \in {40, 63}}
         \cup UNION {one(Opl2SetMacro("Tone", v)) : v \in {1}}
         \cup UNION {one(Opl2SetMacro("Global", v)) : v \in {1}}
         \cup UNION {one(Opl2NoteOn(n, 4)) : n \in {343, 577}}
         \cup one(Opl2NoteOff) \cup one(Opl2Direct(189, 32))

DrvChannels(chip) ==
    IF chip = "PSG" THEN {<<0, 0>>, <<0, 1>>, <<0, 3>>}
    ELSE {<<0, 0>>, <<0, 1>>}

DrvInputs(chip) ==
    {[event |-> e, chip_sub |-> ch[1], chan_sub |-> ch[2]] :
        e \in DrvEvents(chip), ch \in DrvChannels(chip)}

\* Each request with the flag "first request to its register since
\* loop_start"; seen is the set of registers requested since loop_start.
MarkFirst(reqs, seen, looped) ==
    [i \in 1..Len(reqs) |->
        [bytes |-> reqs[i].bytes, reg |-> reqs[i].reg, emitted |-> reqs[i].emitted,
         first |-> /\ looped
                   /\ reqs[i].reg \notin seen
                   /\ \A j \in 1..(i - 1) : reqs[j].reg # reqs[i].reg]]

DrvIdle == [phase |-> "idle"]

DrvInit ==
    drv \in {[phase |-> "new", chip |-> chip, st |-> DrvNew(chip), ref |-> DrvNew(chip),
              hw |-> DrvHwNew(chip), hwRef |-> DrvHwNew(chip), last |-> <<>>,
              looped |-> FALSE, seen |-> {}, sends |-> 0] : chip \in DrvChips}

\* write_output: file_begin of the chip
FileBegin ==
    /\ drv.phase = "new"
    /\ LET r == DrvFileBegin(drv.chip, drv.st, TRUE)
           q == DrvFileBegin(drv.chip, drv.ref, FALSE)
       IN  drv' = [drv EXCEPT !.phase = "begun",
                              !.st = r.st, !.ref = q.st,
                              !.hw = DrvReplay(drv.chip, @, r.reqs),
                              !.hwRef = DrvReplay(drv.chip, @, q.reqs),
                              !.last = MarkFirst(r.reqs, {}, FALSE)]
    /\ UNCHANGED <<delay, queue, job, tag>>

\* write_output: one chip event handed to send_with_macro_env
Send ==
    /\ drv.phase = "begun"
    /\ drv.sends < MaxSends
    /\ \E in \in DrvInputs(drv.chip) :
         LET r == DrvSend(drv.chip, drv.st, in, TRUE)
             q == DrvSend(drv.chip, drv.ref, in, FALSE)
         IN  drv' = [drv EXCEPT !.st = r.st, !.ref = q.st,
                                !.hw = DrvReplay(drv.chip, @, r.reqs),
                                !.hwRef = DrvReplay(drv.chip, @, q.reqs),
                                !.last = MarkFirst(r.reqs, drv.seen, drv.looped),
                                !.seen = IF drv.looped
                                         THEN @ \cup {r.reqs[i].reg : i \in 1..Len(r.reqs)}
                                         ELSE @,
                                !.sends = @ + 1]
    /\ UNCHANGED <<delay, queue, job, tag>>

\* write_output: loop_start of the chip when the loop point is reached
LoopStart ==
    /\ drv.phase = "begun"
    /\ ~drv.looped
    /\ drv' = [drv EXCEPT !.st = DrvLoopStart(drv.chip, @),
                          !.ref = DrvLoopStart(drv.chip, @),
                          !.looped = TRUE, !.seen = {}, !.last = <<>>]
    /\ UNCHANGED <<delay, queue, job, tag>>

(***************************************************************************)
(* chips/dmg.rs: the part a silent channel exercises                       *)
(***************************************************************************)
GB_DMG_DEFAULT_CLOCK == 4194304

\* Dmg::new
DmgNew == [clock |-> GB_DMG_DEFAULT_CLOCK, dual |-> FALSE,
           pan |-> [c \in 0..1 |-> 255], vol |-> 240]

\* Dmg::start_channel
DmgStartChannel(st) == [st EXCEPT !.vol = 240]

\* Dmg::file_begin: the sound system is switched on; the writes are not
\* compared with anything.
DmgFileBegin(st) ==
    [st   |-> [st EXCEPT !.pan = [c \in 0..1 |-> 255], !.vol = 240],
     reqs |-> <<Req(<<179, 22, 255>>, <<"dmg", 22, 0>>, TRUE),
                Req(<<179, 20, 119>>, <<"dmg", 20, 0>>, TRUE),
                Req(<<179, 21, 255>>, <<"dmg", 21, 0>>, TRUE)>>
              \o (IF st.dual
                  THEN <<Req(<<179, 150, 255>>, <<"dmg", 150, 0>>, TRUE),
                         Req(<<179, 148, 119>>, <<"dmg", 148, 0>>, TRUE),
                         Req(<<179, 149, 255>>, <<"dmg", 149, 0>>, TRUE)>>
                  ELSE <<>>)]

\* Dmg::file_end: the header's GameBoy DMG clock field.
DmgFileEnd(st) == IF st.dual THEN st.clock + 1073741824 ELSE st.clock

\* Dmg::loop_start: empty.
DmgLoopStart(st) == st

(***************************************************************************)
(* chips/mod.rs: the registry and the calls through the SoundChip trait    *)
(***************************************************************************)
\* create_chip: the names among the inputs that the registry knows.
\* chips/ay8910.rs, the part compile_channel calls.  The driver keeps one
\* volume and one envelope multiplier for the whole chip.
AY8910_DEFAULT_CLOCK == 1789750

AyNew == [clock |-> AY8910_DEFAULT_CLOCK, ena |-> [c \in 0..1 |-> 0], vol |-> 15,
          dual |-> 0, spec |-> FALSE, mul |-> 0]

\* Ay8910::set_macro (Volume, Tone, Multiply): the state and the event
AySetMacro(st, is_dynamic, command, value) ==
    IF command = "Volume"
    THEN (IF is_dynamic /\ st.vol = U8(value) THEN [st |-> st, events |-> <<>>]
          ELSE [st |-> [st EXCEPT !.vol = value % 16],
                events |-> <<ChipEvent(33, value % 16, 0)>>])
    ELSE IF command = "Tone" THEN [st |-> st, events |-> <<ChipEvent(34, value, 0)>>]
    ELSE IF command = "Multiply"
    THEN [st |-> [st EXCEPT !.vol = 31, !.mul = value], events |-> <<>>]
    ELSE [st |-> st, events |-> <<>>]

\* Ay8910::note_on and note_change: vol | (mul << 16), for mul >= 0
AyNoteOn(st, note) == <<ChipEvent(32, note, st.vol + 65536 * st.mul)>>
AyNoteOff == <<ChipEvent(32, 0, 0)>>

RegisteredChips == {"PSG", "OPN2", "OPL2", "DMG", "AY8910"}

create_chip(name) ==
    IF name = "PSG" THEN SnNew
    ELSE IF name = "AY8910" THEN AyNew
    ELSE IF name = "OPN2" THEN Opn2New
    ELSE IF name = "OPL2" THEN Opl2New
    ELSE DmgNew

\* SoundChip::start_channel: only the DMG driver does anything.
ChipStartChannel(name, st) == IF name = "DMG" THEN DmgStartChannel(st) ELSE st

ChipFileBegin(name, st) ==
    IF name = "DMG" THEN DmgFileBegin(st) ELSE DrvFileBegin(name, st, TRUE)

ChipLoopStart(name, st) ==
    IF name = "DMG" THEN DmgLoopStart(st) ELSE DrvLoopStart(name, st)

\* SoundChip::rest: an event for the PSG and the OPL2, None for the others.
ChipRest(name) ==
    IF name = "PSG" THEN SnNoteOff
    ELSE IF name = "OPL2" THEN Opl2NoteOff
    ELSE IF name = "AY8910" THEN AyNoteOff
    ELSE <<>>

\* SoundChip::note_on and note_off of the chips whose channels play notes.
ChipNoteOn(name, st, v, o1) ==
    CASE name = "PSG"  -> SnNoteOn(v)
      [] name = "AY8910" -> AyNoteOn(st, v)
      [] name = "OPN2" -> Opn2NoteOn(v, o1)
      [] name = "OPL2" -> Opl2NoteOn(v, o1)

\* SoundChip::note_change
ChipNoteChange(name, st, v, o1) ==
    CASE name = "PSG"  -> SnNoteOn(v)
      [] name = "AY8910" -> AyNoteOn(st, v)
      [] name = "OPN2" -> Opn2NoteChange(v, o1)
      [] name = "OPL2" -> Opl2NoteOn(v, o1)

ChipNoteOff(name) ==
    CASE name = "PSG"  -> SnNoteOff
      [] name = "AY8910" -> AyNoteOff
      [] name = "OPN2" -> Opn2NoteOff
      [] name = "OPL2" -> Opl2NoteOff

\* clock_div, note_bits and basic_octave of a chip at its default clock.
ChipClockDiv(name) ==
    CASE name = "PSG"  -> 0 - SN76489_DEFAULT_CLOCK
      [] name = "OPN2" -> YM2612_DEFAULT_CLOCK
      [] name = "OPL2" -> YM3812_DEFAULT_CLOCK \div 9
      [] name = "DMG"  -> 0 - GB_DMG_DEFAULT_CLOCK
      [] name = "AY8910" -> 0 - AY8910_DEFAULT_CLOCK

\* SoundChip::set_macro: the chip's state after it and the event, if any
ChipSetMacro(name, st, is_dynamic, command, value) ==
    IF name = "AY8910" THEN AySetMacro(st, is_dynamic, command, value)
    ELSE [st |-> st,
          events |-> CASE name = "PSG"  -> SnSetMacro(command, value)
                       [] name = "OPN2" -> Opn2SetMacro(command, value)
                       [] name = "OPL2" -> Opl2SetMacro(command, value)
                       [] OTHER -> <<>>]

ChipNoteBits(name) ==
    CASE name = "PSG" -> 10 [] name = "OPN2" -> 0 - 11
      [] name = "OPL2" -> 0 - 10 [] name = "DMG" -> 11 [] name = "AY8910" -> 12

ChipBasicOctave(name) ==
    CASE name = "PSG" -> 0 [] name = "OPN2" -> 7 [] name = "OPL2" -> 7 [] name = "DMG" -> 1
      [] name = "AY8910" -> 1

(***************************************************************************)
(* vgm/header.rs                                                           *)
(***************************************************************************)
VGM_HEADER_SIZE  == 192
EOF_OFFSET       == 4
SN76489_CLOCK    == 12
GD3_OFFSET       == 20
TOTAL_SAMPLES    == 24
LOOP_OFFSET      == 28
LOOP_SAMPLES     == 32
RATE             == 36
SN76489_FEEDBACK == 40
SN76489_SHIFT_WIDTH == 42
SN76489_FLAGS    == 43
YM2612_CLOCK     == 44
YM3812_CLOCK     == 80
VOLUME_MODIFIER  == 124
LOOP_BASE        == 126
LOOP_MODIFIER    == 127
GB_DMG_CLOCK     == 128

\* (value as u32).to_le_bytes(): the low 32 bits of an integer, low byte first.
LE32(value) ==
    <<value % 256, (value \div 256) % 256,
      (value \div 65536) % 256, (value \div 16777216) % 256>>

\* VgmHeader::write_u8 and write_u32; the header is the sequence of its
\* bytes, the byte of offset k at index k + 1.
write_u8(h, offset, value) ==
    IF offset < VGM_HEADER_SIZE THEN [h EXCEPT ![offset + 1] = value] ELSE h

write_u32(h, offset, value) ==
    IF offset + 3 < VGM_HEADER_SIZE
    THEN [i \in 1..VGM_HEADER_SIZE |->
             IF i > offset /\ i <= offset + 4 THEN LE32(value)[i - offset] ELSE h[i]]
    ELSE h

\* The four bytes of a 32 bit field
Field32(h, offset) == SubSeq(h, offset + 1, offset + 4)

\* VgmHeader::new: "Vgm ", version 0x161, data offset relative to 0x34
VgmHeaderNew ==
    LET zero  == [i \in 1..VGM_HEADER_SIZE |-> 0]
        magic == [i \in 1..VGM_HEADER_SIZE |->
                     IF i <= 4 THEN <<86, 103, 109, 32>>[i] ELSE zero[i]]
    IN  write_u32(write_u32(magic, 8, 353), 52, VGM_HEADER_SIZE - 52)

(***************************************************************************)
(* vgm/gd3.rs                                                              *)
(***************************************************************************)
\* A string is the sequence of its chars, each a Unicode scalar value; a
\* metadata is the sequence of the eleven strings in the order of the tag.
GD3_VERSION == 256
GD3_COUNT   == 11

LE16(u) == <<u % 256, (u \div 256) % 256>>

\* write_utf16_string: the chars as UTF-16LE, a char beyond the BMP as a
\* surrogate pair, then the null terminator.
RECURSIVE write_utf16_string(_)
write_utf16_string(s) ==
    IF s = <<>> THEN <<0, 0>>
    ELSE LET code == Head(s)
             v    == code - 65536
             high == 55296 + ((v \div 1024) % 1024)
             low  == 56320 + (v % 1024)
         IN  (IF code <= 65535 THEN LE16(code) ELSE LE16(high) \o LE16(low))
             \o write_utf16_string(Tail(s))

\* generate_gd3: "Gd3 ", the version, the size of the strings, the strings
generate_gd3_of(metadata) ==
    LET strings == Flatten([i \in 1..GD3_COUNT |-> write_utf16_string(metadata[i])])
    IN  <<71, 100, 51, 32>> \o LE32(GD3_VERSION) \o LE32(Len(strings)) \o strings

\* Gd3Metadata::default: eleven empty strings
EmptyMetadata == [i \in 1..GD3_COUNT |-> <<>>]

\* generate_gd3 of a compilation, whose input has no metadata line
generate_gd3 == generate_gd3_of(EmptyMetadata)

(***************************************************************************)
(* vgm/reader.rs: parse_gd3                                                *)
(***************************************************************************)
\* read_utf16_string from the offset pos of data: the chars read so far are
\* `chars`; the result is the string and the offset after it.  A high
\* surrogate takes the next unit with it and gives a char only when that is
\* a low surrogate; a lone low surrogate gives none (char::from_u32 is None).
RECURSIVE read_utf16_string(_, _, _)
read_utf16_string(data, pos, chars) ==
    IF pos + 2 > Len(data) THEN [s |-> chars, pos |-> pos]
    ELSE LET code == data[pos + 1] + 256 * data[pos + 2] IN
         IF code = 0 THEN [s |-> chars, pos |-> pos + 2]
         ELSE IF InRange(code, 55296, 56319)
         THEN (IF pos + 4 > Len(data) THEN [s |-> chars, pos |-> pos + 2]
               ELSE LET low == data[pos + 3] + 256 * data[pos + 4]
                    IN  read_utf16_string(data, pos + 4,
                            IF InRange(low, 56320, 57343)
                            THEN Append(chars, 65536 + (code - 55296) * 1024 + (low - 56320))
                            ELSE chars))
         ELSE read_utf16_string(data, pos + 2,
                  IF InRange(code, 56320, 57343) THEN chars ELSE Append(chars, code))

\* The eleven read_utf16_string calls of parse_gd3, in order
RECURSIVE ReadStrings(_, _, _, _)
ReadStrings(data, pos, n, acc) ==
    IF n = 0 THEN acc
    ELSE LET r == read_utf16_string(data, pos, <<>>)
         IN  ReadStrings(data, r.pos, n - 1, Append(acc, r.s))

\* parse_gd3 on the bytes from gd3_pos on: None (<<>>) without the magic,
\* else the eleven strings after the version and the size.
parse_gd3(data) ==
    IF Len(data) < 12 \/ SubSeq(data, 1, 4) # <<71, 100, 51, 32>> THEN <<>>
    ELSE ReadStrings(data, 12, GD3_COUNT, <<>>)

\* The texts: up to MaxText chars out of NUL, A, e, the combining acute
\* accent U+0301, e-acute U+00E9 and U+1F600, which is beyond the BMP.
MaxText == 2
Chars   == {0, 65, 101, 769, 233, 128512}

RECURSIVE Texts(_)
Texts(n) ==
    IF n = 0 THEN {<<>>}
    ELSE Texts(n - 1) \cup {Append(t, c) : t \in {x \in Texts(n - 1) : Len(x) = n - 1},
                                          c \in Chars}

TagIdle == [phase |-> "idle"]

\* A metadata with one field set to a text and "B" in every other field
TagInit ==
    tag \in {[phase |-> "new", field |-> f,
              metadata |-> [i \in 1..GD3_COUNT |-> IF i = f THEN t ELSE <<66>>],
              data |-> <<>>, parsed |-> <<>>] : f \in 1..GD3_COUNT, t \in Texts(MaxText)}

\* VgmWriter::finalize: generate_gd3(metadata)
GenerateGd3 ==
    /\ tag.phase = "new"
    /\ tag' = [tag EXCEPT !.phase = "written", !.data = generate_gd3_of(tag.metadata)]
    /\ UNCHANGED <<delay, queue, drv, job>>

\* VgmReader::parse_gd3 on the tag written
ParseGd3 ==
    /\ tag.phase = "written"
    /\ tag' = [tag EXCEPT !.phase = "parsed", !.parsed = parse_gd3(tag.data)]
    /\ UNCHANGED <<delay, queue, drv, job>>

(***************************************************************************)
(* compiler/mod.rs: the inputs                                             *)
(*                                                                         *)
(* A file is a sequence of lines.  A line is an #EX- directive (the chip   *)
(* name and the characters of its channel list), an #INCLUDE, #EOF, or a   *)
(* channel line (its channel letters and its text, one MML command per     *)
(* element: c a note, r a rest, t the tempo, digits and dots the           *)
(* parameters, L the loop point, @!0 the fast-forward).                    *)
(***************************************************************************)
ExLine(name, decl)    == [k |-> "ex", name |-> name, decl |-> decl]
IncludeLine(file)     == [k |-> "include", dir |-> <<>>, file |-> file]
\* #INCLUDE dir/file
IncludeAt(dir, file)  == [k |-> "include", dir |-> dir, file |-> file]
ChanLine(chans, text) == [k |-> "chan", chans |-> chans, text |-> text]
EofLine               == [k |-> "eof"]
RateLine(rate)        == [k |-> "rate", rate |-> rate]
\* An envelope line `<name><id> = { items }`, its items numbers and `|`
Num(n) == [k |-> "num", v |-> n]
Bar    == [k |-> "bar", v |-> 0]
EnvLine(name, id, items) == [k |-> "env", name |-> name, id |-> id, items |-> items]
\* The other items of envelope data: a repeat count `'n`, a note pad
\* `,<letter><accidentals><octave>`, `[`, `]n`, a ramp of `:`s to a value,
\* one of the skipped characters `=`, `{`, `,` and any other character
Rep(n)   == [k |-> "rep", v |-> n]
Pad(note, acc, octave) == [k |-> "pad", note |-> note, acc |-> acc, v |-> octave]
Open     == [k |-> "open", v |-> 0]
Close(n) == [k |-> "close", v |-> n]
Ramp(step, target) == [k |-> "ramp", step |-> step, v |-> target]
Skip     == [k |-> "skip", v |-> 0]
Other    == [k |-> "other", v |-> 0]
\* A line of envelope data that does not start with `@`
DataLine(items) == [k |-> "env", name |-> <<>>, id |-> 0, items |-> items]

Files ==
    [rest     |-> <<ExLine("PSG", <<"A", "B">>),
                    ChanLine(<<"A">>, <<"c", "r">>), ChanLine(<<"B">>, <<"c">>)>>,
     both     |-> <<ExLine("PSG", <<"A", "B">>),
                    ChanLine(<<"A", "B">>, <<"c">>), ChanLine(<<"B">>, <<"r", "c">>)>>,
     psg2     |-> <<ExLine("PSG", <<"A", "B", "C", "D">>),
                    ChanLine(<<"A">>, <<"c">>), ChanLine(<<"D">>, <<"c">>)>>,
     psgquiet |-> <<ExLine("PSG", <<"A", "_", "_", "D">>), ChanLine(<<"A">>, <<"c">>)>>,
     opn2x7   |-> <<ExLine("OPN2", <<"A", "B", "C", "D", "E", "F", "G">>),
                    ChanLine(<<"A">>, <<"c">>)>>,
     two      |-> <<ExLine("OPL2", <<"A">>), ExLine("DMG", <<"B">>),
                    ChanLine(<<"A">>, <<"c">>), ChanLine(<<"B">>, <<"r">>)>>,
     nochip   |-> <<ExLine("NOPE", <<"A">>), ChanLine(<<"A">>, <<"c">>)>>,
     nochan   |-> <<ExLine("PSG", <<"A">>), ChanLine(<<"A", "Z">>, <<"c">>)>>,
     incchip  |-> <<ExLine("PSG", <<"A">>), IncludeLine("badchip"),
                    ChanLine(<<"A">>, <<"c">>)>>,
     incchan  |-> <<ExLine("PSG", <<"A">>), IncludeLine("badchan"),
                    ChanLine(<<"A">>, <<"c">>)>>,
     incok    |-> <<ExLine("PSG", <<"A", ",", "B">>), IncludeLine("tune"),
                    IncludeLine("absent"), ChanLine(<<"B">>, <<"r">>)>>,
     badchip  |-> <<ExLine("NOPE", <<"B">>), ChanLine(<<"A">>, <<"r">>)>>,
     badchan  |-> <<ChanLine(<<"A", "Z">>, <<"r">>), ChanLine(<<"A">>, <<"r">>)>>,
     tune     |-> <<ChanLine(<<"A">>, <<"c", "L", "c", "@", "!", "0", "c">>), EofLine,
                    ChanLine(<<"A">>, <<"c">>)>>,
     loop     |-> <<ExLine("PSG", <<"A", "B">>),
                    ChanLine(<<"A">>, <<"c", "L", "c", "r">>), ChanLine(<<"B">>, <<"c">>)>>,
     looplate |-> <<ExLine("PSG", <<"A">>), ChanLine(<<"A">>, <<"c", "r", "L">>)>>,
     subdir   |-> <<IncludeAt(<<"inc">>, "mid"), ChanLine(<<"A">>, <<"r">>)>>,
     mid      |-> <<ExLine("PSG", <<"A">>), IncludeLine("leaf")>>,
     leaf     |-> <<ChanLine(<<"A">>, <<"c">>)>>]

\* The files given to compile_file
MainFiles == {"rest", "both", "psg2", "psgquiet", "opn2x7", "two", "nochip",
              "nochan", "incchip", "incchan", "incok", "loop", "looplate",
              "subdir"}

\* The timing programs: a rest and a note of length `len` with `dots` dots,
\* the rest under the initial tempo and the note under `tempo`, and a second,
\* shorter channel.
MaxDots == 2
Tempos  == {60, 120, 150}
Lengths == {1, 4, 64, 96}
TimingParams == [tempo : Tempos, len : Lengths, dots : 0..MaxDots]

DIGITS == <<"0", "1", "2", "3", "4", "5", "6", "7", "8", "9">>

\* The decimal digits of a number, as the text has them
RECURSIVE DigitsOf(_)
DigitsOf(n) ==
    IF n < 10 THEN <<DIGITS[n + 1]>> ELSE Append(DigitsOf(n \div 10), DIGITS[(n % 10) + 1])

DotsOf(k) == [i \in 1..k |-> "."]

TimingLines(p) ==
    <<ExLine("PSG", <<"A", "B">>),
      ChanLine(<<"A">>, <<"r">> \o DigitsOf(p.len) \o DotsOf(p.dots)
                        \o <<"t">> \o DigitsOf(p.tempo)
                        \o <<"c">> \o DigitsOf(p.len) \o DotsOf(p.dots)),
      ChanLine(<<"B">>, <<"t">> \o DigitsOf(p.tempo) \o <<"c">> \o DigitsOf(p.len))>>

\* A number as the text has it
NumText(n) == IF n < 0 THEN <<"-">> \o DigitsOf(0 - n) ELSE DigitsOf(n)

\* Two channels of one AY8910: A sets a volume and plays, B plays.
MaxVolume == 15
VolumeParams == [va : 0..MaxVolume]
VolumeLines(p) ==
    <<ExLine("AY8910", <<"A", "B">>),
      ChanLine(<<"A">>, <<"v">> \o DigitsOf(p.va) \o <<"o", "1", "c">>),
      ChanLine(<<"B">>, <<"o", "1", "c">>)>>

\* A #RATE line, then one PSG channel with a note and a counted loop
Rates == {-60, 50, 60, 44100, 44101, 88200}
RateParams == [rate : Rates]
RateProgram(p) ==
    <<RateLine(p.rate), ExLine("PSG", <<"A">>),
      ChanLine(<<"A">>, <<"c", "1", "6", "[", "r", "1", "6", "]", "2">>)>>

\* One PSG channel that sets the quantize and plays two notes
QuantizeParams == [a : {0, 2, 8}, b : {-100, 0, 100}]
QuantizeProgram(p) ==
    <<ExLine("PSG", <<"A">>),
      ChanLine(<<"A">>, <<"@", "q">> \o NumText(p.a) \o <<",">> \o NumText(p.b)
                        \o <<"c", "1", "6", "c", "8">>)>>

\* A file `cycle` of `before` #RATE lines, an #INCLUDE and `after` #RATE
\* lines, where the #INCLUDE names the file itself, the file `back` whose
\* one line is `#INCLUDE cycle`, or a file that does not exist.
IncludeParams == [target : {"cycle", "back", "absent"}, before : 0..3, after : 0..3]
IncludeProgram(p) ==
    [i \in 1..p.before |-> RateLine(60)] \o <<IncludeLine(p.target)>>
    \o [i \in 1..p.after |-> RateLine(50)]
FamilyFiles == {"cycle", "back"}

\* Two PSG channels with the same text, but for a character `u` that is no
\* command in the text of the first: `;` and the space are below `@`, `z`
\* is a letter that starts no command.
UnknownParams == [u : {";", " ", "z"}, prefix : {<<"c">>, <<"c", "8">>},
                  suffix : {<<"d">>, <<"^", "8", "d">>}]
UnknownProgram(p) ==
    <<ExLine("PSG", <<"A", "B">>),
      ChanLine(<<"A">>, p.prefix \o <<p.u>> \o p.suffix),
      ChanLine(<<"B">>, p.prefix \o p.suffix)>>

\* One PSG channel with a counted loop with a break, `[c16\d16]n`
MaxRepeat == 4
BreakParams == [n : 1..MaxRepeat]
BreakProgram(p) ==
    <<ExLine("PSG", <<"A">>),
      ChanLine(<<"A">>, <<"[", "c", "1", "6", "\\", "d", "1", "6", "]">> \o NumText(p.n))>>

\* One PSG channel that waits x frames shifted right by y, `@w<x>,<y>`,
\* and plays a sixteenth
WaitParams == [x : {-10, 0, 3}, y : {0, 1}]
WaitProgram(p) ==
    <<ExLine("PSG", <<"A">>),
      ChanLine(<<"A">>, <<"@", "w">> \o NumText(p.x) \o <<",">> \o NumText(p.y)
                        \o <<"c", "1", "6">>)>>

\* An envelope, a #RATE line and one PSG channel that selects the envelope
\* as its volume envelope (`@v0`) or its arpeggio (`EN0`) and plays two notes
Envelopes ==
    {<<>>, <<Num(0), Num(4), Num(7)>>, <<Num(12), Bar, Num(4), Num(7)>>,
     <<Bar, Num(3), Num(0)>>, <<Num(5), Num(9), Bar>>,
     <<Num(1), Num(2), Num(3), Num(4), Num(5), Num(6), Num(7), Num(8), Num(9), Num(10)>>}
Selects == {<<"@", "v", "0">>, <<"E", "N", "0">>}
EnvelopeParams == [items : Envelopes, select : Selects, rate : {50, 60}]
EnvelopeProgram(p) ==
    <<EnvLine(IF p.select[1] = "@" THEN <<"@", "v">> ELSE <<"@", "E", "N">>, 0, p.items),
      RateLine(p.rate), ExLine("PSG", <<"A">>),
      ChanLine(<<"A">>, p.select \o <<"c", "1", "6", "c", "3", "2">>)>>

\* Three lines of envelope definitions: a line `@v0 = { items`, then two
\* lines that go on with its data or start another definition.
FirstItems ==
    {<<Num(1), Num(2)>>,
     <<Num(3), Bar>>,
     <<Bar, Num(3)>>,
     <<Rep(1030), Num(5)>>,
     <<Rep(2047), Num(1), Rep(1), Num(2)>>,
     <<Open, Num(1), Num(2), Num(3), Close(700)>>,
     <<Open, Open, Num(1), Close(2), Num(9), Close(3)>>,
     <<Num(0), Ramp(1, 5)>>,
     <<Num(10), Rep(2), Ramp(2, 3)>>,
     <<Skip, Num(7), Pad(1, 0, 0)>>,
     <<Other, Num(1)>>,
     [i \in 1..32 |-> Open]}
NextLines ==
    {DataLine(items) : items \in {<<>>, <<Num(4)>>, <<Rep(1030), Num(6), Num(7)>>,
                                  <<Open, Num(1)>>, <<Close(3)>>, <<Bar>>,
                                  <<Ramp(1, 3)>>, <<Pad(2, 1, 1)>>}}
    \cup {EnvLine(<<"@", "v">>, 256, <<Num(8)>>), EnvLine(<<"@", "v", "v">>, 0, <<Num(8)>>),
          EnvLine(<<"@", "P">>, 1, <<Bar>>)}
DefinitionParams == [first : FirstItems, second : NextLines, third : NextLines]
DefinitionLines(p) == <<EnvLine(<<"@", "v">>, 0, p.first), p.second, p.third>>

\* A phase group: the first k channels of a PSG compile the same line,
\* `@[` with their letters and n notes of a sixteenth
MaxNotes == 5
PhaseParams == [k : 2..3, n : 1..MaxNotes]
Tune == <<"c", "d", "e", "f", "g", "a", "b">>
RECURSIVE Notes(_)
Notes(n) == IF n = 0 THEN <<>> ELSE Notes(n - 1) \o <<Tune[((n - 1) % 7) + 1], "1", "6">>
PhaseProgram(p) ==
    LET group == SubSeq(<<"A", "B", "C">>, 1, p.k)
    IN  <<ExLine("PSG", <<"A", "B", "C">>),
          ChanLine(group, <<"@", "[">> \o group \o <<"]">> \o Notes(p.n))>>

\* One PSG channel: a note-off mode, a quantize, then three notes with `&`,
\* `/` or nothing between the first two
SlurParams == [join : {<<"&">>, <<"/">>, <<>>}, a : {0, 2}, mode : 0..1]
SlurProgram(p) ==
    <<ExLine("PSG", <<"A">>),
      ChanLine(<<"A">>, <<"N", "O", "E">> \o NumText(p.mode) \o <<"@", "q">> \o NumText(p.a)
                        \o <<",", "0", "c", "1", "6">> \o p.join
                        \o <<"d", "1", "6", "e", "8">>)>>

\* The lines of a file of a compilation
FileLines(j, file) ==
    CASE file = "timing" -> TimingLines(j.param)
      [] file = "volume" -> VolumeLines(j.param)
      [] file = "rate" -> RateProgram(j.param)
      [] file = "slur" -> SlurProgram(j.param)
      [] file = "phase" -> PhaseProgram(j.param)
      [] file = "envelope" -> EnvelopeProgram(j.param)
      [] file = "quantize" -> QuantizeProgram(j.param)
      [] file = "wait" -> WaitProgram(j.param)
      [] file = "break" -> BreakProgram(j.param)
      [] file = "unknown" -> UnknownProgram(j.param)
      [] file = "cycle" -> IncludeProgram(j.param)
      [] file = "back" -> <<IncludeLine("cycle")>>
      [] file = "definition" -> DefinitionLines(j.param)
      [] OTHER -> Files[file]

\* The directory of each file, relative to the directory of the files given
\* to compile_file: mid and leaf are inc/mid and inc/leaf.
FileDir(file) == IF file \in {"mid", "leaf"} THEN <<"inc">> ELSE <<>>

\* File::open of the path dir/name: the file there, "none" when there is none
OpenPath(dir, name) ==
    IF (name \in DOMAIN Files \/ name \in FamilyFiles) /\ FileDir(name) = dir
    THEN name ELSE "none"

\* base.join(param) of the INCLUDE branch
include_path(base, line) == [dir |-> base \o line.dir, file |-> line.file]

UPPER == <<"A", "B", "C", "D", "E", "F", "G", "H", "I", "J", "K", "L", "M",
           "N", "O", "P", "Q", "R", "S", "T", "U", "V", "W", "X", "Y", "Z">>

\* Compiler::channel_index, of the upper-case letters; -1 is None.
channel_index(ch) ==
    IF \E i \in 1..26 : UPPER[i] = ch
    THEN (CHOOSE i \in 1..26 : UPPER[i] = ch) - 1
    ELSE -1

\* Channel::new
Channel(chip_name, chip_sub, chan_sub) ==
    [chip_name |-> chip_name, chip_sub |-> chip_sub, chan_sub |-> chan_sub,
     text |-> <<>>, loop_point |-> -1, duration |-> 0]

\* parse_chip_enable: the loop over the channel list
RECURSIVE ParseChannelList(_, _, _, _, _, _)
ParseChannelList(channels, chip_name, decl, i, chip_sub, chan_sub) ==
    IF i > Len(decl) THEN channels
    ELSE IF decl[i] = ","
    THEN ParseChannelList(channels, chip_name, decl, i + 1, chip_sub + 1, 0)
    ELSE IF decl[i] = "_"
    THEN ParseChannelList(channels, chip_name, decl, i + 1, chip_sub, chan_sub + 1)
    ELSE IF channel_index(decl[i]) >= 0
    THEN ParseChannelList(
             (channel_index(decl[i]) :> Channel(chip_name, chip_sub, chan_sub)) @@ channels,
             chip_name, decl, i + 1, chip_sub, chan_sub + 1)
    ELSE ParseChannelList(channels, chip_name, decl, i + 1, chip_sub, chan_sub)

\* parse_chip_enable: Err(UnknownChip) before anything is changed, else the
\* channels are bound and the chip is put in the map in place of any chip of
\* that name.
parse_chip_enable(j, chip_name, decl) ==
    IF chip_name \notin RegisteredChips
    THEN [j |-> [j EXCEPT !.offending = TRUE], err |-> "UnknownChip"]
    ELSE [j |-> [j EXCEPT
                   !.channels = ParseChannelList(@, chip_name, decl, 1, 0, 0),
                   !.chips = (chip_name :> create_chip(chip_name)) @@ @,
                   !.declared = IF \E i \in 1..Len(@) : @[i] = chip_name
                                THEN @ ELSE Append(@, chip_name)],
          err |-> "ok"]

\* parse_channel_line: the text is appended to the channels of the line in
\* order, up to the first one that is not declared.
RECURSIVE parse_channel_line(_, _, _, _)
parse_channel_line(j, chans, text, i) ==
    IF i > Len(chans) THEN [j |-> j, err |-> "ok"]
    ELSE LET idx == channel_index(chans[i]) IN
         IF idx \in DOMAIN j.channels
         THEN parse_channel_line([j EXCEPT !.channels[idx].text = @ \o text],
                                 chans, text, i + 1)
         ELSE [j |-> [j EXCEPT !.offending = TRUE], err |-> "UndeclaredChannel"]

(***************************************************************************)
(* compiler/mod.rs: compile_channel                                        *)
(***************************************************************************)
OCTAVE_COUNT == 12
DEFAULT_FRAMERATE == 735

\* calc_note_len
RECURSIVE DotLen(_, _, _)
DotLen(k, j, dots) ==
    IF dots = 0 THEN k ELSE DotLen(k + (j \div 2), j \div 2, dots - 1)

\* A slip in calc_note_len: the dots are not counted.
calc_note_len_undotted(tempo, len, dots) ==
    IF len = 0 THEN 0 ELSE (10584000 \div len) \div tempo

calc_note_len(tempo, len, dots) ==
    IF len = 0 THEN 0
    ELSE DotLen(10584000 \div len, 10584000 \div len, dots) \div tempo

\* The value of a decimal digit character, -1 for any other character
DigitValue(c) ==
    IF \E d \in 1..10 : DIGITS[d] = c THEN (CHOOSE d \in 1..10 : DIGITS[d] = c) - 1 ELSE -1

\* read_num on a text without `$`: an optional comma, the signs, then the
\* decimal digits; the value read and the position after it.
RECURSIVE ReadDigits(_, _, _)
ReadDigits(text, pos, value) ==
    IF pos <= Len(text) /\ DigitValue(text[pos]) >= 0
    THEN ReadDigits(text, pos + 1, value * 10 + DigitValue(text[pos]))
    ELSE [value |-> value, pos |-> pos]

RECURSIVE ReadSign(_, _, _)
ReadSign(text, pos, sign) ==
    IF pos <= Len(text) /\ text[pos] = "+" THEN ReadSign(text, pos + 1, 1)
    ELSE IF pos <= Len(text) /\ text[pos] = "-" THEN ReadSign(text, pos + 1, -1)
    ELSE [sign |-> sign, pos |-> pos]

read_num(text, pos) ==
    LET p0 == IF pos <= Len(text) /\ text[pos] = "," THEN pos + 1 ELSE pos
        s  == ReadSign(text, p0, 1)
        d  == ReadDigits(text, s.pos, 0)
    IN  [value |-> s.sign * d.value, pos |-> d.pos]

\* The dots from pos on
RECURSIVE CountDots(_, _)
CountDots(text, pos) ==
    IF pos <= Len(text) /\ text[pos] = "." THEN 1 + CountDots(text, pos + 1) ELSE 0

\* read_note_params on a text without accidentals: the new length and the
\* position after the parameters.
read_note_params(text, pos, len, tempo) ==
    LET x    == read_num(text, pos)
        dots == CountDots(text, x.pos)
    IN  [len |-> IF x.value # 0 THEN calc_note_len(tempo, x.value, dots)
                 ELSE DotLen(len, len, dots),
         pos |-> x.pos + dots]

\* figure_out_note_values: note_value[0..11] for the chip's clock_div and
\* note_bits with the default temperament and base frequency (the floating
\* point computation carried out).
note_value(name) ==
    CASE name = "PSG"    -> <<855, 807, 761, 719, 678, 640, 604, 570, 538, 508, 479, 452>>
      [] name = "OPN2"   -> <<956, 1013, 1073, 1137, 1205, 1277, 1353, 1433, 1518, 1609,
                              1704, 1806>>
      [] name = "OPL2"   -> <<396, 420, 445, 472, 500, 529, 561, 594, 630, 667, 707, 749>>
      [] name = "AY8910" -> <<3420, 3229, 3047, 2876, 2714, 2562, 2418, 2283, 2155, 2033,
                              1919, 1811>>

\* Compiler::new: note_letter, for the letters a to j
NOTE_LETTERS == <<"a", "b", "c", "d", "e", "f", "g", "h", "i", "j">>
note_letter  == <<9, 11, 0, 2, 4, 5, 7, 0, 0, 0>>
NoteIndex(b) == CHOOSE i \in 1..10 : NOTE_LETTERS[i] = b

\* The bytes b >= b'@' of a channel text (no backquote)
MacroChars ==
    {"@", "[", "\\", "]", "^", "_", "{", "|", "}", "~"}
    \cup {UPPER[i] : i \in 1..26}
    \cup {"a", "b", "c", "d", "e", "f", "g", "h", "i", "j", "k", "l", "m", "n", "o", "p",
          "q", "r", "s", "t", "u", "v", "w", "x", "y", "z"}

\* compiler/envelope.rs: MacroType::all, from_stat_name and from_dyn_name;
\* a name is the sequence of its characters, "none" is None.
MacroTypeAll ==
    <<"Volume", "Panning", "Tone", "Option", "Arpeggio", "Global", "Multiply",
      "Waveform", "ModWaveform", "VolumeEnv", "Sample", "SampleList", "Midi">>

MacroTypes == {MacroTypeAll[i] : i \in 1..Len(MacroTypeAll)}

from_stat_name(name) ==
    CASE name = <<"v">> -> "Volume"            [] name = <<"P">> -> "Panning"
      [] name = <<"@">> -> "Tone"              [] name = <<"@", "G">> -> "Global"
      [] name = <<"M">> -> "Multiply"          [] name = <<"@", "W">> -> "Waveform"
      [] name = <<"@", "W", "M">> -> "ModWaveform"
      [] name = <<"v", "e">> -> "VolumeEnv"    [] name = <<"@", "S">> -> "Sample"
      [] name = <<"@", "S", "L">> -> "SampleList"
      [] OTHER -> "none"

from_dyn_name(name) ==
    CASE name = <<"@", "v">> -> "Volume"       [] name = <<"@", "P">> -> "Panning"
      [] name = <<"@", "@">> -> "Tone"         [] name = <<"@", "x">> -> "Option"
      [] name = <<"@", "E", "N">> -> "Arpeggio"
      [] name = <<"@", "M">> -> "Multiply"     [] name = <<"@", "W">> -> "Waveform"
      [] name = <<"@", "S">> -> "Sample"       [] name = <<"@", "S", "L">> -> "SampleList"
      [] name = <<"@", "M", "I", "D", "I">> -> "Midi"
      [] OTHER -> "none"

\* MacroEnvelope::new, push and set_loop_point
MAX_ENVELOPE_DATA == 2048

MacroEnvelopeNew == [loop_start |-> -1, loop_end |-> 0, data |-> <<>>]

push_unguarded(env, value) ==
    [env EXCEPT !.data = Append(@, value), !.loop_end = @ + 1]

push(env, value) ==
    IF env.loop_end < MAX_ENVELOPE_DATA
    THEN [env EXCEPT !.data = IF Len(@) <= env.loop_end THEN Append(@, value)
                               ELSE [@ EXCEPT ![env.loop_end + 1] = value],
                     !.loop_end = @ + 1]
    ELSE env

set_loop_point(env) == [env EXCEPT !.loop_start = env.loop_end]

\* push for each of the values in order (the first half of the values,
\* then the second half on the envelope that leaves)
RECURSIVE PushAll(_, _)
PushAll(env, values) ==
    IF values = <<>> THEN env
    ELSE IF Len(values) = 1 THEN push(env, values[1])
    ELSE CHOOSE out \in
           {CHOOSE all \in {PushAll(half, w) : half \in {PushAll(env, u)}} : TRUE :
               u \in {SubSeq(values, 1, Len(values) \div 2)},
               w \in {SubSeq(values, Len(values) \div 2 + 1, Len(values))}} : TRUE

\* `as i16`
I16(x) == ((x + 32768) % 65536) - 32768

\* The value n times: `for _ in 0..n`
Times(value, n) == [i \in 1..n |-> value]

\* self.macro_env[mac][id]
EnvOf(j, mac, id) ==
    IF <<mac, id>> \in DOMAIN j.macro_env THEN j.macro_env[<<mac, id>>]
    ELSE MacroEnvelopeNew

\* self.macro_env[self.env_mac][self.env_id] = env
EnvSet(j, env) == [j EXCEPT !.macro_env = (<<j.env_mac, j.env_id>> :> env) @@ @]

\* parse_envelope, the ramp to a value: the values pushed, each env_rep
\* times.  No ramp among the lines parsed leaves the range of i16.
RECURSIVE RampValues(_, _, _, _)
RampValues(current, target, dir, env_rep) ==
    IF current = target THEN <<>>
    ELSE LET next == current + dir
         IN  Times(next, env_rep)
             \o (IF (dir > 0 /\ next >= target) \/ (dir < 0 /\ next <= target)
                 THEN <<>>
                 ELSE RampValues(next, target, dir, env_rep))

\* parse_envelope: one item of the envelope data.  stop is the `return` of
\* parse_envelope; panic is an index outside env_brep and env_bst.
ParseItem(j, item) ==
    LET env  == EnvOf(j, j.env_mac, j.env_id)
        last == env.data[env.loop_end]
        b    == j.env_block - 1
        x    == note_letter[item.note] - env.loop_end + item.acc
                + item.v * OCTAVE_COUNT
        y    == env.loop_end
        block_start == j.env_bst[b]
        size == y - block_start
        dir  == IF I16(item.v) > last THEN item.step ELSE 0 - item.step
    IN  IF item.k = "num"
        THEN (IF env.loop_end >= MAX_ENVELOPE_DATA THEN [j |-> j, stop |-> TRUE]
              ELSE [j |-> EnvSet(j, PushAll(env, Times(I16(item.v), j.env_rep))),
                    stop |-> FALSE])
        ELSE IF item.k = "bar"
        THEN [j |-> EnvSet(j, set_loop_point(env)), stop |-> FALSE]
        ELSE IF item.k = "rep"
        THEN [j |-> [j EXCEPT !.env_rep = item.v], stop |-> FALSE]
        ELSE IF item.k = "pad"
        THEN [j |-> IF env.loop_end > 0 THEN EnvSet(j, PushAll(env, Times(last, x)))
                    ELSE j,
              stop |-> FALSE]
        ELSE IF item.k = "skip"
        THEN [j |-> j, stop |-> FALSE]
        ELSE IF item.k = "open"
        THEN (IF j.env_block > 31 THEN [j |-> [j EXCEPT !.panic = TRUE], stop |-> TRUE]
              ELSE [j |-> [j EXCEPT !.env_brep[j.env_block] = j.env_rep,
                                    !.env_bst[j.env_block] = env.loop_end,
                                    !.env_block = @ + 1],
                    stop |-> FALSE])
        ELSE IF item.k = "close" /\ j.env_block > 0
        THEN [j |-> [EnvSet(j, PushAll(env,
                                [i \in 1..((item.v - 1) * size) |->
                                    env.data[block_start + ((i - 1) % size) + 1]]))
                     EXCEPT !.env_block = b, !.env_rep = j.env_brep[b]],
              stop |-> FALSE]
        ELSE IF item.k = "ramp"
        THEN [j |-> IF env.loop_end > 0
                    THEN EnvSet(j, PushAll(env, RampValues(last, I16(item.v), dir,
                                                           j.env_rep)))
                    ELSE j,
              stop |-> FALSE]
        ELSE [j |-> j, stop |-> TRUE]

\* parse_envelope: the loop over the envelope data of the line
RECURSIVE ParseItems(_, _, _)
ParseItems(j, items, i) ==
    IF i > Len(items) THEN j
    ELSE CHOOSE out \in
           {IF r.stop THEN r.j ELSE ParseItems(r.j, items, i + 1) :
               r \in {ParseItem(j, items[i])}} : TRUE

\* parse_envelope of a line `<name><id> = { items }`, or of a line of items
\* that goes on with the envelope of the line before (name = <<>>).  The
\* items are numbers, loop points `|`, repeat counts `'n`, note pads `,c`,
\* blocks `[` and `]n`, ramps `:n`, the skipped characters and the others;
\* text labels are not among them.
parse_envelope(j, line) ==
    LET mac == from_dyn_name(line.name)
        j1  == [j EXCEPT !.env_block = 0, !.env_rep = 1, !.env_mac = mac]
        j2  == [j1 EXCEPT !.env_id = line.id % 256]
    IN  IF line.name # <<>>
        THEN (IF mac = "none" THEN j1
              ELSE ParseItems(EnvSet(j2, MacroEnvelopeNew), line.items, 1))
        ELSE IF j.env_mac = "none" THEN j
        ELSE ParseItems(j, line.items, 1)

\* parse_global_command, RATE
Rate(j, rate) ==
    IF rate < 0 THEN [j EXCEPT !.framerate = 44100 \div (0 - rate)]
    ELSE IF rate > 0 THEN [j EXCEPT !.framerate = 44100 \div rate]
    ELSE j

\* ChannelCompileState::new
ChannelCompileStateNew ==
    [octave |-> 0, tempo |-> 120, default_len |-> calc_note_len(120, 4, 0),
     time |-> 0, transpose |-> 0, detune |-> 0, quantize |-> 0,
     current_note |-> -1, current_len |-> 0, kind |-> 0, old_note |-> 0,
     loop_depth |-> -1, loop_start |-> [d \in 0..127 |-> 0],
     loop_end |-> [d \in 0..127 |-> 0], loop_count |-> [d \in 0..127 |-> 0],
     phase |-> 0, phase_count |-> 1, phase_counter |-> 0]

\* self.events.insert for each event of a sequence
RECURSIVE InsertAll(_, _)
InsertAll(events, es) ==
    IF es = <<>> THEN events
    ELSE CHOOSE all \in {InsertAll(one, Tail(es)) : one \in {insert(events, Head(es))}} : TRUE

\* self.total_samples after a channel that ends at `time`; the slip takes the
\* end of the channel compiled last.
total_samples_of_last(total_samples, time) == time

total_samples_max(total_samples, time) ==
    IF total_samples < time THEN time ELSE total_samples

\* send_note_if_pending: the octave and the value of a note for the chip
NotePitch(name, note, detune) ==
    LET o1 == note \div OCTAVE_COUNT
        o  == IF ChipNoteBits(name) < 0 THEN 0
              ELSE IF ChipClockDiv(name) < 0 THEN o1 - ChipBasicOctave(name)
              ELSE ChipBasicOctave(name) - o1
    IN  [v |-> Shr(note_value(name)[(note % OCTAVE_COUNT) + 1], o) - detune, o1 |-> o1]

\* The sounding length of a note
sounding_full(dur, quantize) == dur
sounding(dur, quantize) == Max(dur - quantize, 0)

\* The macro index after a step of an envelope
advance_no_loop(env, i) == IF i + 1 >= env.loop_end THEN -1 ELSE i + 1
advance(env, i) == IF i + 1 >= env.loop_end THEN env.loop_start ELSE i + 1

\* A call of a driver's function by compile_channel, and its events queued
\* at time t.  The record of the call keeps, in `more`, what the compiler
\* held when it made the call.
Made(fn, name, idx, t, more, events) ==
    [calls  |-> <<[fn |-> fn, chip |-> name, channel |-> idx, time |-> t] @@ more
                  @@ [step |-> "none", index |-> -1]>>,
     events |-> [i \in 1..Len(events) |-> Event(t, idx, events[i])]]

\* The macro types that step with set_macro
DynCommands == {"Volume", "Panning", "Tone", "Option", "Multiply", "Waveform", "Sample"}

\* The macro types that have an envelope selected, in the order of the loop
InUse(j) == SelectSeq(MacroTypeAll, LAMBDA mac : j.macro_use[mac] # -1)

\* send_note_if_pending: one macro type in the loop over the macro types at
\* time t.  acc holds the chip, macro_indices, the calls and the events.
StepType(j, idx, note, detune, t, mac, acc) ==
    LET name == j.channels[idx].chip_name
        use  == j.macro_use[mac]
        env  == EnvOf(j, mac, use)
        i    == acc.ix[mac]
        p    == NotePitch(name, note + env.data[i + 1], detune)
        set  == ChipSetMacro(name, acc.st, TRUE, mac, env.data[i + 1])
        made == IF mac = "Arpeggio"
                THEN (IF env.data[i + 1] # 0
                      THEN Made("note_change", name, idx, t,
                                [value |-> p.v, step |-> mac, index |-> i],
                                ChipNoteChange(name, acc.st, p.v, p.o1))
                      ELSE [calls |-> <<>>, events |-> <<>>])
                ELSE Made("set_macro", name, idx, t,
                          [value |-> env.data[i + 1], step |-> mac, index |-> i],
                          set.events)
    IN  IF use # -1 /\ i # -1 /\ i < Len(env.data) /\ mac \in DynCommands \cup {"Arpeggio"}
        THEN [st     |-> IF mac = "Arpeggio" THEN acc.st ELSE set.st,
              ix     |-> [acc.ix EXCEPT ![mac] = advance(env, i)],
              calls  |-> acc.calls \o made.calls,
              events |-> acc.events \o made.events]
        ELSE acc

\* send_note_if_pending: the loop over the macro types at time t, from the
\* m-th type in use on (a type with macro_use -1 does nothing)
RECURSIVE StepTypes(_, _, _, _, _, _, _)
StepTypes(j, idx, note, detune, t, m, acc) ==
    IF m > Len(InUse(j)) THEN acc
    ELSE CHOOSE out \in {StepTypes(j, idx, note, detune, t, m + 1, a) :
                            a \in {StepType(j, idx, note, detune, t, InUse(j)[m], acc)}} : TRUE

\* send_note_if_pending: `while t < state.time + d`, for a framerate above 0
RECURSIVE StepEnvelopes(_, _, _, _, _, _, _)
StepEnvelopes(j, idx, note, detune, t, end, acc) ==
    IF t >= end \/ InUse(j) = <<>> THEN acc
    ELSE CHOOSE out \in {StepEnvelopes(j, idx, note, detune, t + j.framerate, end, a) :
                            a \in {StepTypes(j, idx, note, detune, t, 1, acc)}} : TRUE

\* state.kind <<= 2 on a u8: the flags of the note sent become those of the
\* note before
kind_cleared(kind) == 0
kind_after(kind) == U8(kind * 4)

\* send_note_if_pending.  A note with a sounding length above 0 at a
\* framerate of 0 never leaves the loop over the envelopes: hung.
send_note_if_pending(j, cs, idx) ==
    LET counter == IF cs.current_len > 0
                   THEN (cs.phase_counter + 1) % Max(cs.phase_count, 1)
                   ELSE cs.phase_counter
        passed  == [cs EXCEPT !.time = @ + cs.current_len, !.current_len = 0,
                              !.kind = kind_after(@)]
    IN
    IF cs.current_len > 0 /\ counter # cs.phase
    THEN [j |-> j, cs |-> [passed EXCEPT !.phase_counter = counter]]
    ELSE IF cs.current_len = 0 THEN [j |-> j, cs |-> cs]
    ELSE
    LET name     == j.channels[idx].chip_name
        st       == j.chips[name]
        note     == cs.current_note
        dur      == cs.current_len
        quantize == IF cs.kind % 2 # 0 THEN 0 ELSE cs.quantize
        p        == NotePitch(name, note, cs.detune)
        d        == sounding(dur, quantize)
        none     == [calls |-> <<>>, events |-> <<>>]
        held     == [value |-> p.v, note |-> note, detune |-> cs.detune, len |-> dur,
                     quantize |-> cs.quantize,
                     kind |-> cs.kind, mode |-> j.note_off_event, use |-> j.macro_use,
                     next |-> passed.time]
        before   == IF j.note_off_event = 1 /\ (cs.kind \div 4) % 4 = 0
                    THEN Made("note_off", name, idx, cs.time, [value |-> p.v],
                              ChipNoteOff(name))
                    ELSE none
        on       == IF (cs.kind \div 4) % 4 # 0
                    THEN Made("note_change", name, idx, cs.time, held,
                              ChipNoteChange(name, st, p.v, p.o1))
                    ELSE Made("note_on", name, idx, cs.time, held,
                              ChipNoteOn(name, st, p.v, p.o1))
        hung     == d > 0 /\ j.framerate <= 0
        steps    == StepEnvelopes(j, idx, note, cs.detune, cs.time, cs.time + d,
                        [st |-> st, ix |-> [mac \in DOMAIN j.macro_use |-> 0],
                         calls |-> <<>>, events |-> <<>>])
        after    == IF j.note_off_event = 0 /\ cs.kind % 4 = 0
                    THEN Made("note_off", name, idx, cs.time + d, [value |-> p.v],
                              ChipNoteOff(name))
                    ELSE none
        rest     == Made("rest", name, idx, cs.time, [value |-> dur], ChipRest(name))
    IN  IF note = -1
        THEN [j  |-> [j EXCEPT !.events = InsertAll(@, rest.events),
                               !.calls = @ \o rest.calls],
              cs |-> [passed EXCEPT !.phase_counter = counter]]
        ELSE IF note < 0 THEN [j |-> j, cs |-> [passed EXCEPT !.phase_counter = counter]]
        ELSE IF hung
        THEN [j  |-> [j EXCEPT !.events = InsertAll(@, before.events \o on.events),
                               !.calls = @ \o before.calls \o on.calls,
                               !.hung = TRUE],
              cs |-> cs]
        ELSE CHOOSE out \in
               {[j  |-> [j EXCEPT
                           !.events = InsertAll(@, before.events \o on.events
                                                   \o s.events \o after.events),
                           !.calls = @ \o before.calls \o on.calls \o s.calls
                                       \o after.calls,
                           !.chips[name] = s.st],
                 cs |-> [passed EXCEPT !.phase_counter = counter, !.old_note = note]] :
                s \in {steps}} : TRUE

\* compile_channel, `@[`: the letters up to `]`
RECURSIVE PhaseSync(_, _, _, _)
PhaseSync(cs, idx, text, pos) ==
    IF pos <= Len(text) /\ text[pos] # "]"
    THEN PhaseSync([cs EXCEPT !.phase = IF channel_index(text[pos]) = idx
                                        THEN cs.phase_count ELSE @,
                              !.phase_count = @ + 1], idx, text, pos + 1)
    ELSE [cs  |-> [cs EXCEPT !.phase_count = IF @ > 0 THEN @ + 1 ELSE @],
          pos |-> IF pos <= Len(text) THEN pos + 1 ELSE pos]

\* compile_channel, the name of a macro command: at most 7 bytes >= b'@'
RECURSIVE MacroName(_, _, _)
MacroName(text, pos, name) ==
    IF pos <= Len(text) /\ text[pos] \in MacroChars /\ Len(name) < 7
    THEN MacroName(text, pos + 1, Append(name, text[pos]))
    ELSE [name |-> name, pos |-> pos]

\* compile_channel, the macro command: a static command sends set_macro, a
\* dynamic one selects an envelope.
MacroCommand(j, cs, idx, text, pos) ==
    LET name  == j.channels[idx].chip_name
        m     == MacroName(text, pos, <<>>)
        x     == read_num(text, m.pos)
        stat  == from_stat_name(m.name)
        dyn   == from_dyn_name(m.name)
        cmd   == CASE stat = "ModWaveform" -> "Waveform" [] stat = "VolumeEnv" -> "Volume"
                   [] OTHER -> stat
        set   == ChipSetMacro(name, j.chips[name], FALSE, cmd, x.value)
        made  == Made("set_macro", name, idx, cs.time, [value |-> x.value, cmd |-> cmd],
                      set.events)
    IN  [j   |-> IF stat # "none"
                 THEN [j EXCEPT !.macro_use[stat] = -1, !.chips[name] = set.st,
                                !.events = InsertAll(@, made.events),
                                !.calls = @ \o made.calls]
                 ELSE IF dyn # "none" THEN [j EXCEPT !.macro_use[dyn] = x.value % 256]
                 ELSE j,
         pos |-> x.pos]

\* The byte at a position of the text, "" past its end
At(text, pos) == IF pos <= Len(text) THEN text[pos] ELSE ""

\* compile_channel: one command of the channel's text, at pos.  r is what
\* send_note_if_pending gives there; the result holds the position after
\* the command.
Command(j, cs, r, idx, text, pos) ==
    LET b  == text[pos]
        b1 == At(text, pos + 1)
        n  == read_note_params(text, pos + 1, r.cs.default_len, r.cs.tempo)
        tie == read_note_params(text, pos + 1, cs.default_len, cs.tempo)
        t  == read_num(text, pos + 1)
        t2 == read_num(text, pos + 2)
        u2 == read_num(text, t2.pos)
        depth == cs.loop_depth
    IN  IF \E i \in 1..10 : NOTE_LETTERS[i] = b
        THEN [j |-> r.j, cs |-> [r.cs EXCEPT !.current_note = r.cs.octave * OCTAVE_COUNT
                                               + note_letter[NoteIndex(b)] + r.cs.transpose,
                              !.current_len = n.len], pos |-> n.pos]
        ELSE IF b = "r"
        THEN [j |-> r.j, cs |-> [r.cs EXCEPT !.current_len = n.len, !.current_note = -1], pos |-> n.pos]
        ELSE IF b = "w"
        THEN [j |-> r.j, cs |-> [r.cs EXCEPT !.current_len = n.len, !.current_note = -2], pos |-> n.pos]
        ELSE IF b = "^"
        THEN [j |-> j, cs |-> [cs EXCEPT !.current_len = @ + tie.len], pos |-> tie.pos]
        ELSE IF b = "&"
        THEN [j |-> j, cs |-> [cs EXCEPT !.kind = BitOr(@, 1)], pos |-> pos + 1]
        ELSE IF b = "/"
        THEN [j |-> j, cs |-> [cs EXCEPT !.kind = BitOr(@, 2)], pos |-> pos + 1]
        ELSE IF b = "o"
        THEN [j |-> j, cs |-> [cs EXCEPT !.octave = t.value], pos |-> t.pos]
        ELSE IF b = ">"
        THEN [j |-> j, cs |-> [cs EXCEPT !.octave = @ + 1], pos |-> pos + 1]
        ELSE IF b = "<"
        THEN [j |-> j, cs |-> [cs EXCEPT !.octave = @ - 1], pos |-> pos + 1]
        ELSE IF b = "t"
        THEN [j |-> j, cs |-> [cs EXCEPT !.tempo = t.value], pos |-> t.pos]
        ELSE IF b = "D"
        THEN [j |-> r.j, cs |-> [r.cs EXCEPT !.detune = t.value], pos |-> t.pos]
        ELSE IF b = "K"
        THEN [j |-> r.j, cs |-> [r.cs EXCEPT !.transpose = t.value], pos |-> t.pos]
        ELSE IF b = "!"
        THEN [j |-> j, cs |-> cs, pos |-> Len(text) + 1]
        ELSE IF b = "L"
        THEN [j |-> [r.j EXCEPT !.channels[idx].loop_point = r.cs.time,
                                     !.loop_on = TRUE, !.loop_point = r.cs.time], cs |-> r.cs, pos |-> pos + 1]
        ELSE IF b = "@" /\ b1 = "q"
        THEN [j |-> r.j, cs |-> [r.cs EXCEPT !.quantize = t2.value * j.framerate - u2.value], pos |-> u2.pos]
        ELSE IF b = "[" /\ depth < 127
        THEN [j |-> j, cs |-> [cs EXCEPT !.loop_depth = depth + 1,
                                       !.loop_start[depth + 1] = pos + 1,
                                       !.loop_end[depth + 1] = 0,
                                       !.loop_count[depth + 1] = 0], pos |-> pos + 1]
        ELSE IF b = "]" /\ depth >= 0
        THEN (IF cs.loop_count[depth] + 1 < t.value
              THEN [j |-> j, cs |-> [cs EXCEPT !.loop_end[depth] = pos,
                                             !.loop_count[depth] = @ + 1], pos |-> cs.loop_start[depth]]
              ELSE [j |-> j, cs |-> [cs EXCEPT !.loop_end[depth] = pos,
                                             !.loop_count[depth] = @ + 1,
                                             !.loop_depth = depth - 1], pos |-> t.pos])
        ELSE IF b = "\\" /\ depth >= 0
        THEN [j |-> j, cs |-> cs, pos |-> IF cs.loop_end[depth] # 0 THEN cs.loop_end[depth] ELSE pos + 1]
        ELSE IF b = "E" /\ b1 = "N" /\ At(text, pos + 2) = "O" /\ At(text, pos + 3) = "F"
        THEN [j |-> [r.j EXCEPT !.macro_use["Arpeggio"] = -1], cs |-> r.cs, pos |-> pos + 4]
        ELSE IF b = "E" /\ b1 = "N"
        THEN [j |-> [r.j EXCEPT !.macro_use["Arpeggio"] = t2.value], cs |-> r.cs, pos |-> t2.pos]
        ELSE IF b = "{"
        THEN [j |-> j, cs |-> [cs EXCEPT !.default_len = (@ * 2) \div 3], pos |-> pos + 1]
        ELSE IF b = "}"
        THEN [j |-> j, cs |-> [cs EXCEPT !.default_len = (@ * 3) \div 2], pos |-> pos + 1]
        ELSE IF b = "N" /\ b1 = "O" /\ At(text, pos + 2) = "E"
        THEN LET x == read_num(text, pos + 3)
             IN  [j |-> [r.j EXCEPT !.note_off_event = x.value], cs |-> r.cs, pos |-> x.pos]
        ELSE IF b = "@" /\ b1 = "["
        THEN LET s == PhaseSync([r.cs EXCEPT !.phase = 0, !.phase_count = 0], idx, text,
                                pos + 2)
             IN  [j |-> r.j, cs |-> s.cs, pos |-> s.pos]
        ELSE IF b = "@" /\ b1 = "!"
        THEN [j |-> [r.j EXCEPT !.fast_forward = r.cs.time - t2.value * j.framerate], cs |-> r.cs, pos |-> t2.pos]
        ELSE IF b = "@" /\ b1 = "w"
        THEN [j |-> r.j, cs |-> [r.cs EXCEPT !.time = @ + ((t2.value * j.framerate) \div (2 ^ u2.value))], pos |-> u2.pos]
        ELSE IF b \in MacroChars
        THEN LET c == MacroCommand(r.j, r.cs, idx, text, pos)
             IN  [j |-> c.j, cs |-> r.cs, pos |-> c.pos]
        ELSE [j |-> j, cs |-> cs, pos |-> pos + 1]

\* compile_channel: the loop over the channel's text, for texts without the
\* commands n, l, ?, x, y and @/.
RECURSIVE CompileText(_, _, _, _, _)
CompileText(j, cs, idx, text, pos) ==
    IF pos > Len(text) \/ j.hung THEN [j |-> j, cs |-> cs]
    ELSE CHOOSE out \in
           {CompileText(c.j, c.cs, idx, text, c.pos) :
               c \in {Command(j, cs, r, idx, text, pos) :
                         r \in {send_note_if_pending(j, cs, idx)}}} : TRUE

\* compile_channel: after the loop over the text
FinishChannel(r, idx) ==
    IF r.j.hung THEN r.j
    ELSE CHOOSE out \in
           {[f.j EXCEPT !.channels[idx].duration = f.cs.time,
                        !.total_samples = total_samples_max(@, f.cs.time)] :
               f \in {send_note_if_pending(r.j, r.cs, idx)}} : TRUE

\* compile_channel
compile_channel(j, idx) ==
    LET name == j.channels[idx].chip_name
        j1   == [j EXCEPT !.chips[name] = ChipStartChannel(name, @),
                          !.macro_use = [mac \in DOMAIN @ |-> -1],
                          !.note_off_event = 0,
                          !.calls = Append(@, [fn |-> "start_channel", chip |-> name,
                                               channel |-> idx])]
    IN  CHOOSE out \in
          {FinishChannel(r, idx) :
              r \in {CompileText(j1, ChannelCompileStateNew, idx, j.channels[idx].text, 1)}}
          : TRUE

(***************************************************************************)
(* compiler/mod.rs and vgm/writer.rs: compile_file                         *)
(*                                                                         *)
(* job.file is the file at the output path.  A write, seek or create may   *)
(* fail; a failed write_data leaves the data section and data_pos as they  *)
(* were.  job.frames is the stack of read_input calls, one per file being  *)
(* read.  offending, declared, begun, dropped, eof_seen, includes and      *)
(* calls (the calls of the drivers' trait functions, in order) record what *)
(* happened and are read by nothing in the program.                        *)
(***************************************************************************)
MaxIoFailures == 1
MaxFailAt     == 2

JobIdle == [phase |-> "idle"]

\* Compiler::new and the call of compile_file on a file
JobNew(main) ==
    [phase |-> "read", main |-> main, frames |-> <<[file |-> main, pos |-> 1]>>,
     channels |-> <<>>, chips |-> <<>>, events |-> EmptyQueue,
     total_samples |-> 0, loop_point |-> 0, loop_on |-> FALSE,
     framerate |-> DEFAULT_FRAMERATE, fast_forward |-> 0,
     compiled |-> {}, todo |-> {}, out |-> <<>>, next |-> 1, current_time |-> 0,
     header |-> <<>>, loop_offset |-> -1,
     file |-> [exists |-> FALSE, header |-> <<>>, data |-> <<>>],
     result |-> "none",
     offending |-> FALSE, declared |-> <<>>, begun |-> <<>>, dropped |-> 0,
     eof_seen |-> FALSE,
     base_path |-> FileDir(main), includes |-> <<>>,
     param |-> [tempo |-> 120, len |-> 4, dots |-> 0], calls |-> <<>>,
     macro_use |-> [mac \in MacroTypes |-> -1], note_off_event |-> 0,
     macro_env |-> <<>>, hung |-> FALSE,
     env_mac |-> "none", env_id |-> 0, env_block |-> 0, env_rep |-> 1,
     env_brep |-> [i \in 0..31 |-> 0], env_bst |-> [i \in 0..31 |-> 0],
     panic |-> FALSE]

JobInit == job \in {JobNew(main) : main \in MainFiles}
                   \cup {[JobNew("timing") EXCEPT !.param = p] : p \in TimingParams}

\* compile_file after read_input_from_path returned Ok: the first channel
\* that is Some is compiled, or VgmWriter::new is next.
AfterRead(j) == [j EXCEPT !.frames = <<>>,
                          !.phase = IF DOMAIN j.channels = {} THEN "create" ELSE "compile"]

\* The return of read_input: to compile_file for the main file, where an
\* error ends the compilation, and to the INCLUDE branch of
\* parse_global_command for an included file, where an error is printed as a
\* warning and the reading of the including file goes on.
ReadReturn(j, err) ==
    IF Len(j.frames) = 1
    THEN (IF err = "ok" THEN AfterRead(j)
          ELSE [j EXCEPT !.frames = <<>>, !.phase = "done", !.result = err])
    ELSE [j EXCEPT !.frames = SubSeq(@, 1, Len(@) - 1)]

\* The nesting of read_input that is followed: read_input itself has no
\* limit on it.
MaxDepth == 4

\* read_input: one line
ReadLine ==
    /\ job.phase = "read"
    /\ Len(job.frames) <= MaxDepth
    /\ LET depth == Len(job.frames)
           top   == job.frames[depth]
           lines == FileLines(job, top.file)
           adv   == [job EXCEPT !.frames[depth].pos = @ + 1]
       IN  IF top.pos > Len(lines) THEN job' = ReadReturn(job, "ok")
           ELSE LET line == lines[top.pos] IN
                CASE line.k = "eof" -> job' = ReadReturn([job EXCEPT !.eof_seen = TRUE], "ok")
                  [] line.k = "rate" -> job' = Rate(adv, line.rate)
                  [] line.k = "env" ->
                       LET r == parse_envelope(adv, line)
                       IN  job' = IF r.panic
                                  THEN [r EXCEPT !.frames = <<>>, !.phase = "done",
                                                 !.result = "panic"]
                                  ELSE r
                  [] line.k = "ex" ->
                       LET r == parse_chip_enable(adv, line.name, line.decl)
                       IN  job' = IF r.err = "ok" THEN r.j ELSE ReadReturn(r.j, r.err)
                  [] line.k = "chan" ->
                       LET r == parse_channel_line(adv, line.chans, line.text, 1)
                       IN  job' = IF r.err = "ok" THEN r.j ELSE ReadReturn(r.j, r.err)
                  [] line.k = "include" ->
                       LET p      == include_path(job.base_path, line)
                           opened == OpenPath(p.dir, p.file)
                           inc    == [adv EXCEPT !.includes =
                                        Append(@, [from |-> top.file, dir |-> line.dir,
                                                   file |-> line.file, opened |-> opened])]
                       IN  job' = IF opened # "none"
                                  THEN [inc EXCEPT !.frames =
                                          Append(@, [file |-> opened, pos |-> 1])]
                                  ELSE inc     \* File::open failed: a warning
    /\ UNCHANGED <<delay, queue, drv, tag>>

\* compile_file: compile_channel for the next channel in index order
CompileChannel ==
    /\ job.phase = "compile"
    /\ ~job.hung
    /\ LET left == DOMAIN job.channels \ job.compiled
           idx  == CHOOSE i \in left : \A k \in left : i <= k
           j    == compile_channel(job, idx)
       IN  job' = IF j.hung THEN j
                  ELSE [j EXCEPT !.compiled = @ \cup {idx},
                                 !.phase = IF left = {idx} THEN "create" ELSE "compile"]
    /\ UNCHANGED <<delay, queue, drv, tag>>

\* VgmWriter::new: File::create makes or truncates the file at the path.
CreateWriter ==
    /\ job.phase = "create"
    /\ \E ok \in BOOLEAN :
         job' = IF ok
                THEN [job EXCEPT !.phase = "header", !.header = VgmHeaderNew,
                                 !.loop_offset = -1,
                                 !.file = [exists |-> TRUE, header |-> <<>>, data |-> <<>>]]
                ELSE [job EXCEPT !.phase = "done", !.result = "Io"]
    /\ UNCHANGED <<delay, queue, drv, tag>>

\* The concatenation of a sequence of byte sequences
RECURSIVE ConcatAll(_)
ConcatAll(ss) ==
    IF Len(ss) = 0 THEN <<>>
    ELSE IF Len(ss) = 1 THEN ss[1]
    ELSE LET h == Len(ss) \div 2
         IN  ConcatAll(SubSeq(ss, 1, h)) \o ConcatAll(SubSeq(ss, h + 1, Len(ss)))

\* A call of write_data (or write_delay, write_byte): its bytes, and whether
\* the caller returns the error (`?`) or drops it (`let _ =`).
Call(bytes, fatal) == [bytes |-> bytes, fatal |-> fatal]

\* The write_data calls of a driver: the requests that pass the cache.
DriverCalls(reqs) ==
    LET e == SelectSeq(reqs, LAMBDA q : q.emitted)
    IN  [i \in 1..Len(e) |-> Call(e[i].bytes, FALSE)]

\* The calls of a handler that may be the one to fail; 0 is no failure.
FailChoices(calls, dropped) ==
    {0} \cup {f \in 1..Len(calls) :
                \/ calls[f].fatal
                \/ /\ dropped < MaxIoFailures
                   /\ Cardinality({g \in 1..f : ~calls[g].fatal}) <= MaxFailAt}

\* The bytes that reach the data section when call `fail` fails
Written(calls, fail) ==
    IF fail = 0 THEN ConcatAll([i \in 1..Len(calls) |-> calls[i].bytes])
    ELSE IF calls[fail].fatal
    THEN ConcatAll([i \in 1..(fail - 1) |-> calls[i].bytes])
    ELSE ConcatAll([i \in 1..Len(calls) |-> IF i = fail THEN <<>> ELSE calls[i].bytes])

Fatal(calls, fail) == fail # 0 /\ calls[fail].fatal

\* write_output returns Err(Io) with what was written so far.
IoError(j, bytes) ==
    [j EXCEPT !.phase = "done", !.result = "Io", !.file.data = @ \o bytes]

\* write_output: events = self.events.iter().cloned().collect()
BeginEvents(j) ==
    [j EXCEPT !.out = iter(j.events), !.next = 1, !.current_time = 0,
              !.phase = IF iter(j.events) = <<>> THEN "final" ELSE "events"]

\* The chips of `for (_, instance) in &mut self.chips`
chips_iter_none(chips) == {}
chips_iter(chips) == DOMAIN chips

\* The record of one call of fn on every chip, in one order for all
RECURSIVE CallAll(_, _, _)
CallAll(fn, names, time) ==
    IF names = {} THEN <<>>
    ELSE LET n == CHOOSE x \in names : TRUE
         IN  <<[fn |-> fn, chip |-> n, channel |-> -1, time |-> time]>>
             \o CallAll(fn, names \ {n}, time)

\* write_output: writer.write_header()?
WriteHeader ==
    /\ job.phase = "header"
    /\ \E ok \in BOOLEAN :
         job' = IF ~ok THEN IoError(job, <<>>)
                ELSE LET j == [job EXCEPT !.file.header = job.header,
                                          !.todo = chips_iter(job.chips),
                                          !.phase = "begin"]
                     IN  IF j.todo = {} THEN BeginEvents(j) ELSE j
    /\ UNCHANGED <<delay, queue, drv, tag>>

\* write_output: file_begin of the next chip of `for (_, instance) in &mut
\* self.chips`; the HashMap yields the chips in an order of its own.
BeginChip ==
    /\ job.phase = "begin"
    /\ \E name \in job.todo :
         LET r     == ChipFileBegin(name, job.chips[name])
             calls == DriverCalls(r.reqs)
         IN  \E fail \in FailChoices(calls, job.dropped) :
               LET j == [job EXCEPT !.chips[name] = r.st,
                                    !.file.data = @ \o Written(calls, fail),
                                    !.dropped = IF fail = 0 THEN @ ELSE @ + 1,
                                    !.todo = @ \ {name},
                                    !.begun = Append(@, [name |-> name, bytes |-> Written(calls, 0)]),
                                    !.calls = Append(@, [fn |-> "file_begin", chip |-> name,
                                                         channel |-> -1])]
               IN  job' = IF j.todo = {} THEN BeginEvents(j) ELSE j
    /\ UNCHANGED <<delay, queue, drv, tag>>

\* send_with_macro_env of the chips whose channels have events
ChipSend(name, st, event, chip_sub, chan_sub) ==
    CASE name \in DrvChips ->
        DrvSend(name, st, [event |-> event, chip_sub |-> chip_sub, chan_sub |-> chan_sub],
                TRUE)

\* write_output: the loop point is due before this event.  The slip marks it
\* before the first event whatever its time.
loop_due_early(loop_on, loop_point, current_time, event_time) ==
    loop_on /\ loop_point >= current_time

loop_due(loop_on, loop_point, current_time, event_time) ==
    loop_on /\ loop_point >= current_time /\ loop_point <= event_time

\* write_output: one turn of `for event in &events`
EmitEvent ==
    /\ job.phase = "events"
    /\ LET event == job.out[job.next]
           loop_now == loop_due(job.loop_on, job.loop_point, job.current_time, event.time)
           loop_delay == job.loop_point - job.current_time
           loop_calls == IF loop_now /\ loop_delay > 0
                         THEN <<Call(generate_delay(loop_delay), TRUE)>> ELSE <<>>
           marked == VGM_HEADER_SIZE + Len(job.file.data)
                     + Len(ConcatAll([i \in 1..Len(loop_calls) |-> loop_calls[i].bytes]))
           t1    == IF loop_now THEN job.loop_point ELSE job.current_time
           chips == IF loop_now
                    THEN [n \in DOMAIN job.chips |->
                            IF n \in chips_iter(job.chips)
                            THEN ChipLoopStart(n, job.chips[n]) ELSE job.chips[n]]
                    ELSE job.chips
           d     == event.time - t1
           d_calls == IF d > 0 THEN <<Call(generate_delay(d), TRUE)>> ELSE <<>>
           ch    == job.channels[event.channel]
           r     == IF event.data.kind = "raw"
                    THEN [st |-> chips[ch.chip_name], reqs |-> <<>>]
                    ELSE ChipSend(ch.chip_name, chips[ch.chip_name], event.data,
                                  ch.chip_sub, ch.chan_sub)
           e_calls == IF event.data.kind = "raw"
                      THEN <<Call(<<event.data.byte>>, TRUE)>>
                      ELSE DriverCalls(r.reqs)
           calls == loop_calls \o d_calls \o e_calls
           looped == CallAll("loop_start", chips_iter(job.chips), job.loop_point)
           sent   == IF event.data.kind = "raw" THEN <<>>
                     ELSE <<[fn |-> "send", chip |-> ch.chip_name,
                             channel |-> event.channel, time |-> event.time]>>
       IN  \E fail \in FailChoices(calls, job.dropped) :
             job' = IF Fatal(calls, fail)
                    THEN IoError(IF loop_now /\ fail > Len(loop_calls)
                                 THEN [job EXCEPT !.calls = @ \o looped,
                                                  !.loop_offset = marked,
                                                  !.loop_on = FALSE]
                                 ELSE job,
                                 Written(calls, fail))
                    ELSE [job EXCEPT
                            !.calls = @ \o (IF loop_now THEN looped ELSE <<>>) \o sent,
                            !.chips = [chips EXCEPT ![ch.chip_name] = r.st],
                            !.loop_on = IF loop_now THEN FALSE ELSE @,
                            !.loop_offset =
                                IF loop_now THEN marked ELSE @,
                            !.current_time = event.time,
                            !.file.data = @ \o Written(calls, fail),
                            !.dropped = IF fail = 0 THEN @ ELSE @ + 1,
                            !.next = @ + 1,
                            !.phase = IF job.next = Len(job.out) THEN "final" ELSE @]
    /\ UNCHANGED <<delay, queue, drv, tag>>

\* SoundChip::file_end: the header fields a chip writes.  The PSG writes its
\* feedback, shift width and flags as enable left them without options.
ChipFileEnd(name, st, h) ==
    IF name = "PSG"
    THEN write_u8(write_u8(write_u8(write_u32(h, SN76489_CLOCK, SnFileEnd(st)),
                                    SN76489_FEEDBACK, 9),
                           SN76489_SHIFT_WIDTH, 16),
                  SN76489_FLAGS, 12)
    ELSE IF name = "OPN2" THEN write_u32(h, YM2612_CLOCK, Opn2FileEnd(st))
    ELSE IF name = "OPL2" THEN write_u32(h, YM3812_CLOCK, Opl2FileEnd(st))
    ELSE write_u32(h, GB_DMG_CLOCK, DmgFileEnd(st))

\* write_output: file_end of every chip.  The chips write different fields,
\* so one order stands for all.
RECURSIVE FileEndAll(_, _, _)
FileEndAll(h, chips, names) ==
    IF names = {} THEN h
    ELSE LET n == CHOOSE x \in names : TRUE
         IN  FileEndAll(ChipFileEnd(n, chips[n], h), chips, names \ {n})

\* write_output: the final delay, file_end of the chips, the header values
\* A final delay below 0 is cast to u64: write_delay is asked for more than
\* 2^63 samples, which no file holds, and the write fails.
FinishData ==
    /\ job.phase = "final"
    /\ LET final_delay == job.total_samples - job.current_time
           calls == IF final_delay > 0
                    THEN <<Call(generate_delay(final_delay), TRUE)>> ELSE <<>>
           h1 == FileEndAll(job.header, job.chips, chips_iter(job.chips))
           ended == CallAll("file_end", chips_iter(job.chips),
                            job.current_time + Max(final_delay, 0))
           h2 == write_u32(h1, TOTAL_SAMPLES, job.total_samples - job.fast_forward)
           h3 == write_u32(h2, LOOP_SAMPLES,
                           job.total_samples - job.fast_forward - job.loop_point)
           h4 == write_u32(h3, RATE, 0)                \* recording_rate
           h5 == write_u8(write_u8(write_u8(h4, VOLUME_MODIFIER, 0), LOOP_BASE, 0),
                          LOOP_MODIFIER, 0)
       IN  \E fail \in FailChoices(calls, job.dropped) :
             job' = IF final_delay < 0 \/ Fatal(calls, fail) THEN IoError(job, <<>>)
                    ELSE [job EXCEPT !.file.data = @ \o Written(calls, fail),
                                     !.calls = @ \o ended,
                                     !.header = h5, !.phase = "finalize"]
    /\ UNCHANGED <<delay, queue, drv, tag>>

\* VgmWriter::finalize: the end marker, the GD3 tag, the offsets, the header
\* again, flush.  step is the call that fails: 1 write_end, 2 the GD3 write,
\* 3 write_header, 4 flush; 0 is none.
\* The EOF offset field is relative to its own position 0x04.
eof_offset_absolute(data_pos) == data_pos
eof_offset(data_pos) == data_pos - 4

Finalize ==
    /\ job.phase = "finalize"
    /\ \E step \in 0..4 :
         LET data_pos1  == VGM_HEADER_SIZE + Len(job.file.data) + 1
             gd3_offset == data_pos1
             data_pos2  == data_pos1 + Len(generate_gd3)
             h1 == write_u32(job.header, GD3_OFFSET, gd3_offset - 20)
             h2 == write_u32(h1, EOF_OFFSET, eof_offset(data_pos2))
             h3 == IF job.loop_offset # -1
                   THEN write_u32(h2, LOOP_OFFSET, job.loop_offset - 28) ELSE h2
             written == IF step = 1 THEN <<>>
                        ELSE IF step = 2 THEN <<102>>
                        ELSE <<102>> \o generate_gd3
         IN  job' = [job EXCEPT
                       !.phase = "done",
                       !.result = IF step = 0 THEN "Ok" ELSE "Io",
                       !.header = IF step \in {1, 2} THEN @ ELSE h3,
                       !.file.data = @ \o written,
                       !.file.header = IF step \in {0, 4} THEN h3 ELSE @]
    /\ UNCHANGED <<delay, queue, drv, tag>>

(***************************************************************************)
(* Specifications                                                          *)
(***************************************************************************)
InitDelay == DelayInit /\ queue = QueueIdle /\ drv = DrvIdle /\ job = JobIdle
              /\ tag = TagIdle
NextDelay == GenerateDelay
SpecDelay == InitDelay /\ [][NextDelay]_vars

InitQueue == QueueInit /\ delay = DelayIdle /\ drv = DrvIdle /\ job = JobIdle
              /\ tag = TagIdle
NextQueue == Insert \/ Clear
SpecQueue == InitQueue /\ [][NextQueue]_vars

InitDriver == DrvInit /\ delay = DelayIdle /\ queue = QueueIdle /\ job = JobIdle
              /\ tag = TagIdle
NextDriver == FileBegin \/ Send \/ LoopStart
SpecDriver == InitDriver /\ [][NextDriver]_vars

Init == JobInit /\ delay = DelayIdle /\ queue = QueueIdle /\ drv = DrvIdle /\ tag = TagIdle
Next == \/ ReadLine \/ CompileChannel \/ CreateWriter \/ WriteHeader
        \/ BeginChip \/ EmitEvent \/ FinishData \/ Finalize
Spec == Init /\ [][Next]_vars

\* compile_file up to the end of compile_channel, on the channel programs
ChannelInit == job \in {[JobNew("volume") EXCEPT !.param = p] : p \in VolumeParams}
                      \cup {[JobNew("rate") EXCEPT !.param = p] : p \in RateParams}
                      \cup {[JobNew("slur") EXCEPT !.param = p] : p \in SlurParams}
                      \cup {[JobNew("phase") EXCEPT !.param = p] : p \in PhaseParams}
                      \cup {[JobNew("envelope") EXCEPT !.param = p] : p \in EnvelopeParams}
                      \cup {[JobNew("quantize") EXCEPT !.param = p] : p \in QuantizeParams}
                      \cup {[JobNew("wait") EXCEPT !.param = p] : p \in WaitParams}
                      \cup {[JobNew("break") EXCEPT !.param = p] : p \in BreakParams}
                      \cup {[JobNew("unknown") EXCEPT !.param = p] : p \in UnknownParams}
InitChannel == ChannelInit /\ delay = DelayIdle /\ queue = QueueIdle /\ drv = DrvIdle
               /\ tag = TagIdle
NextChannel == ReadLine \/ CompileChannel
SpecChannel == InitChannel /\ [][NextChannel]_vars

\* read_input of files whose #INCLUDE lines may lead back to them
InitInclude ==
    /\ job \in {[JobNew("cycle") EXCEPT !.param = p] : p \in IncludeParams}
    /\ delay = DelayIdle /\ queue = QueueIdle /\ drv = DrvIdle /\ tag = TagIdle
NextInclude == ReadLine
SpecInclude == InitInclude /\ [][NextInclude]_vars

\* read_input of lines of envelope definitions
InitEnvelope ==
    /\ job \in {[JobNew("definition") EXCEPT !.param = p] : p \in DefinitionParams}
    /\ delay = DelayIdle /\ queue = QueueIdle /\ drv = DrvIdle /\ tag = TagIdle
NextEnvelope == ReadLine
SpecEnvelope == InitEnvelope /\ [][NextEnvelope]_vars

InitGd3 == TagInit /\ delay = DelayIdle /\ queue = QueueIdle /\ drv = DrvIdle
           /\ job = JobIdle
NextGd3 == GenerateGd3 \/ ParseGd3
SpecGd3 == InitGd3 /\ [][NextGd3]_vars

(***************************************************************************)
(* Claims                                                                  *)
(***************************************************************************)
\* C1: for every driver with a shadow-register cache and every sequence of
\* events sent after file_begin, the bytes the driver emitted, replayed on a
\* pristine chip, leave the chip's registers as the same events do when every
\* requested write is emitted.
C1_CacheSound ==
    drv.phase = "begun" => DrvHwRegs(drv.chip, drv.hw) = DrvHwRegs(drv.chip, drv.hwRef)

\* C2: after loop_start the first write request to a cached register is
\* emitted, whatever the shadow value held before loop_start.
C2_LoopStartInvalidates ==
    drv.phase = "begun" =>
        \A i \in 1..Len(drv.last) : drv.last[i].first => drv.last[i].emitted

\* The single-chip capacity of a role: the number of channels of chip_sub
\* that a driver routes to the first chip.
Capacity(chip_name, chip_sub) ==
    CASE chip_name = "PSG"  -> IF chip_sub = 0 THEN 3 ELSE 1
      [] chip_name = "OPN2" -> IF chip_sub = 0 THEN 6 ELSE 2
      [] chip_name = "OPL2" -> IF chip_sub = 0 THEN 9 ELSE 1
      [] chip_name = "DMG"  -> IF chip_sub = 0 THEN 2 ELSE 1

DeclaredBeyond(j, name) ==
    \E idx \in DOMAIN j.channels :
        /\ j.channels[idx].chip_name = name
        /\ j.channels[idx].chan_sub >= Capacity(name, j.channels[idx].chip_sub)

ClockField(name) ==
    CASE name = "PSG" -> SN76489_CLOCK [] name = "OPN2" -> YM2612_CLOCK
      [] name = "OPL2" -> YM3812_CLOCK [] name = "DMG" -> GB_DMG_CLOCK

Succeeded == job.phase = "done" /\ job.result = "Ok"
Failed    == job.phase = "done" /\ job.result # "Ok"

\* C3: in the header of a finished file, bit 30 of an enabled chip's clock
\* field is set if and only if a channel bound to the chip was declared with
\* a chan_sub beyond the single-chip capacity of its role.
C3_DualFlag ==
    Succeeded =>
        \A name \in DOMAIN job.chips :
            (Bit(job.file.header[ClockField(name) + 4], 6) = 1)
                <=> DeclaredBeyond(job, name)

\* The length in samples of a note of length L with k dots under tempo T:
\* the whole note's 10584000 samples divided by L, plus k extensions each
\* the integer half of the one before, the sum divided by T.
SumHalves(b, k) == b + SumSeq([i \in 1..k |-> b \div (2 ^ i)])
NoteSamples(T, L, k) == SumHalves(10584000 \div L, k) \div T

\* The number of samples of a channel's text: its notes and rests, each of
\* its explicit length, or of the default length, a quarter at tempo 120,
\* when it has none.
RECURSIVE TextWalk(_, _, _)
TextWalk(text, pos, tempo) ==
    IF pos > Len(text) THEN 0
    ELSE LET x == read_num(text, pos + 1)
             k == CountDots(text, x.pos)
         IN  IF text[pos] \in {"c", "r"}
             THEN (IF x.value # 0 THEN NoteSamples(tempo, x.value, k)
                   ELSE SumHalves(NoteSamples(120, 4, 0), k))
                  + TextWalk(text, x.pos + k, tempo)
             ELSE IF text[pos] = "t" THEN TextWalk(text, x.pos, x.value)
             ELSE TextWalk(text, pos + 1, tempo)

TextSamples(text) == TextWalk(text, 1, 120)

LongestChannel(j) ==
    IF DOMAIN j.channels = {} THEN 0
    ELSE LET idx == CHOOSE i \in DOMAIN j.channels :
                       \A k \in DOMAIN j.channels :
                           TextSamples(j.channels[k].text) <= TextSamples(j.channels[i].text)
         IN  TextSamples(j.channels[idx].text)

C7_NoPartialFile ==
    Failed => ~job.file.exists

\* C8: when a line naming an unregistered chip or an undeclared channel was
\* read, in the main file or in an included one, the compilation returns an
\* error.
C8_OffendingLineFatal ==
    (job.phase = "done" /\ job.offending) => job.result # "Ok"

\* C9: when a write issued by a driver in file_begin or send has failed, the
\* compilation returns an I/O error.
C9_DriverWriteFatal ==
    (job.phase = "done" /\ job.dropped > 0) => job.result = "Io"

\* The bytes of a chip's file_begin
BeginBytes(j, name) ==
    LET i == CHOOSE k \in 1..Len(j.begun) : j.begun[k].name = name
    IN  j.begun[i].bytes

\* C10: the data section after the file_begin of every chip is determined by
\* the input: with every write succeeding, it holds the initialisation bytes
\* of the chips in the order of their #EX- directives.
C10_BeginOrder ==
    (job.phase = "events" /\ job.next = 1 /\ job.dropped = 0) =>
        job.file.data =
            ConcatAll([i \in 1..Len(job.declared) |-> BeginBytes(job, job.declared[i])])

\* A 32 bit header field read as the readers read it (u32::from_le_bytes)
U32(bytes) == bytes[1] + 256 * bytes[2] + 65536 * bytes[3] + 16777216 * bytes[4]

\* The L command was executed in a compiled channel.
LExecuted == \E idx \in DOMAIN job.channels : job.channels[idx].loop_point # -1

\* The file offset of the 0x66 end marker of a finished file
EndMarkerAt == VGM_HEADER_SIZE + Len(job.file.data) - Len(generate_gd3) - 1

\* C11: when L was executed in a compiled channel, the header of the finished
\* file has a loop_offset other than 0, and loop_offset + 0x1C is an offset
\* of the data section: not before 0xC0 and not after the end marker.
C11_LoopOffset ==
    (Succeeded /\ LExecuted) =>
        LET lo == U32(Field32(job.file.header, LOOP_OFFSET))
        IN  lo # 0 /\ lo + 28 >= VGM_HEADER_SIZE /\ lo + 28 <= EndMarkerAt

\* The samples waited by a stream of VGM commands, command by command: the
\* waits 0x61 lo hi, 0x62, 0x63 and 0x70+n, and the chip writes with one
\* operand (0x30, 0x3F, 0x4F, 0x50) or two (all others the drivers emit).
RECURSIVE StreamSamples(_)
StreamSamples(bytes) ==
    IF bytes = <<>> THEN 0
    ELSE LET op == Head(bytes) IN
         IF op = 102 THEN 0
         ELSE IF op = WAIT_NNNN
         THEN bytes[2] + 256 * bytes[3] + StreamSamples(SubSeq(bytes, 4, Len(bytes)))
         ELSE IF op = WAIT_60TH THEN 735 + StreamSamples(Tail(bytes))
         ELSE IF op = WAIT_50TH THEN 882 + StreamSamples(Tail(bytes))
         ELSE IF InRange(op, 112, 127) THEN (op - 112) + 1 + StreamSamples(Tail(bytes))
         ELSE IF op \in {48, 63, 79, 80} THEN StreamSamples(SubSeq(bytes, 3, Len(bytes)))
         ELSE StreamSamples(SubSeq(bytes, 4, Len(bytes)))

\* C12: when L was executed and the loop mark recorded, the header's
\* loop_samples field equals the samples waited between the loop mark and
\* the end marker.
C12_LoopSamples ==
    (Succeeded /\ LExecuted /\ job.loop_offset # -1) =>
        U32(Field32(job.file.header, LOOP_SAMPLES))
            = StreamSamples(SubSeq(job.file.data, job.loop_offset - VGM_HEADER_SIZE + 1,
                                   Len(job.file.data)))

\* C13: after a successful finalize the header's eof_offset field plus 4 is
\* the total length of the file: the 192-byte header, the command data, the
\* 0x66 end marker and the GD3 block.
C13_EofOffset ==
    Succeeded =>
        LET n == Len(job.file.data)
            g == Len(generate_gd3)
        IN  /\ Len(job.file.header) = VGM_HEADER_SIZE
            /\ n >= g + 1
            /\ SubSeq(job.file.data, n - g, n) = <<102>> \o generate_gd3
            /\ U32(Field32(job.file.header, EOF_OFFSET)) + 4 = VGM_HEADER_SIZE + n
C13_Witness ==
    /\ Succeeded
    /\ Len(job.file.data) > Len(generate_gd3) + 1
    /\ U32(Field32(job.file.header, EOF_OFFSET)) > VGM_HEADER_SIZE + Len(generate_gd3)

\* C14: once a line `#EOF` has been read, no later input line changes a
\* channel's text or a chip instance, the remaining lines of an including
\* file included.
C14_EofHalts ==
    [][(job.phase = "read" /\ job.eof_seen)
         => (job'.channels = job.channels /\ job'.chips = job.chips)]_vars

\* C15: every #INCLUDE opened the file at its path taken relative to the
\* directory of the file that contains the directive, at any depth of
\* inclusion.
C15_IncludeRelative ==
    job.phase # "idle" =>
        \A i \in 1..Len(job.includes) :
            LET inc == job.includes[i]
            IN  inc.opened = OpenPath(FileDir(inc.from) \o inc.dir, inc.file)

\* C16: in a channel of notes and rests with explicit length L and k dots,
\* each one advances the channel's time by NoteSamples(T, L, k) for the
\* tempo T current where it stands (22050 for a quarter at tempo 120), and
\* the header's total_samples is the sum of these for the longest channel.
C16_NoteLength ==
    (job.phase # "idle" /\ job.main = "timing") =>
        LET p     == job.param
            rest  == NoteSamples(120, p.len, p.dots)
            note  == NoteSamples(p.tempo, p.len, p.dots)
            short == NoteSamples(p.tempo, p.len, 0)
            on(t, idx) == /\ t \in DOMAIN job.events
                          /\ \E i \in 1..Len(job.events[t]) : job.events[t][i].channel = idx
        IN  /\ NoteSamples(120, 4, 0) = 22050
            /\ 0 \in job.compiled =>
                  /\ job.channels[0].duration = rest + note
                  /\ on(rest, 0) /\ on(rest + note, 0)
            /\ 1 \in job.compiled =>
                  /\ job.channels[1].duration = short
                  /\ on(0, 1) /\ on(short, 1)
            /\ Succeeded =>
                  /\ Field32(job.file.header, TOTAL_SAMPLES) = LE32(Max(rest + note, short))
                  /\ StreamSamples(job.file.data) = rest + note
C16_Witness ==
    /\ Succeeded
    /\ job.main = "timing"
    /\ job.param = [tempo |-> 150, len |-> 64, dots |-> 2]
    /\ job.channels[0].duration = 4340

\* The calls of a trait function on record for a channel
CallsFor(fn, idx) ==
    {i \in 1..Len(job.calls) : job.calls[i].fn = fn /\ job.calls[i].channel = idx}

\* C17: for every channel compiled, the driver's start_channel and
\* start_channel_with_info were each called exactly once.
C17_StartChannel ==
    job.phase # "idle" =>
        \A idx \in job.compiled :
            /\ Cardinality(CallsFor("start_channel", idx)) = 1
            /\ Cardinality(CallsFor("start_channel_with_info", idx)) = 1

\* The registers whose repeated write has side effects: the YM2612 key-on
\* register 0x28, the OPN2 frequency latches 0xA0..0xAF and the OPL rhythm
\* register 0xBD.  A request for the second chip of a single-chip OPN2 is
\* not routed and is left aside.
SideEffectReg(reg) ==
    \/ /\ reg[1] = "opn2"
       /\ Bit(reg[2], 9) = 0
       /\ (reg[2] % 256 = 40 \/ InRange(reg[2] % 256, 160, 175))
    \/ /\ reg[1] = "opl2"
       /\ reg[3] = 189

\* C18: every write request to a side-effect register is emitted, whether
\* or not its value equals the shadow value.
C18_SideEffectWrites ==
    drv.phase = "begun" =>
        \A i \in 1..Len(drv.last) :
            SideEffectReg(drv.last[i].reg) => drv.last[i].emitted

\* The canonical composition of a text over Chars: a letter followed by
\* the combining acute accent is the one precomposed char.
RECURSIVE NFC(_)
NFC(s) ==
    IF Len(s) < 2 THEN s
    ELSE IF s[2] = 769 /\ s[1] = 101 THEN <<233>> \o NFC(SubSeq(s, 3, Len(s)))
    ELSE IF s[2] = 769 /\ s[1] = 65 THEN <<193>> \o NFC(SubSeq(s, 3, Len(s)))
    ELSE <<s[1]>> \o NFC(Tail(s))

IsAscii(s) == \A i \in 1..Len(s) : s[i] <= 127

\* C19: a text written into any of the eleven fields by generate_gd3 is
\* parsed back by parse_gd3, every field in its place, as the identical
\* string when it is ASCII and as its canonical composition when it is not;
\* a char from U+10000 on takes two units in the tag.
C19_Gd3RoundTrip ==
    tag.phase = "parsed" =>
        /\ Len(tag.parsed) = GD3_COUNT
        /\ \A i \in 1..GD3_COUNT :
              tag.parsed[i] = IF IsAscii(tag.metadata[i]) THEN tag.metadata[i]
                              ELSE NFC(tag.metadata[i])

\* The calls of a trait function on record for a chip, and the sends
CallsOn(fn, name) ==
    {i \in 1..Len(job.calls) : job.calls[i].fn = fn /\ job.calls[i].chip = name}
Sends == {i \in 1..Len(job.calls) : job.calls[i].fn = "send"}
ChipEvents == {i \in 1..Len(job.out) : job.out[i].data.kind = "chip"}

\* C20: in write_output every enabled chip gets file_begin at most once and
\* before any event is sent to any chip, loop_start at most once, and
\* file_end at most once, after the final delay and after every other call;
\* a write_output that gets through the data has called file_begin and
\* file_end exactly once on every chip and sent every chip event between.
C20_ChipLifecycle ==
    job.phase # "idle" =>
        \A name \in DOMAIN job.chips :
            LET begins == CallsOn("file_begin", name)
                loops  == CallsOn("loop_start", name)
                ends   == CallsOn("file_end", name)
            IN  /\ Cardinality(begins) <= 1
                /\ Cardinality(loops) <= 1
                /\ Cardinality(ends) <= 1
                /\ Sends # {} => begins # {}
                /\ \A b \in begins : \A i \in Sends \cup loops \cup ends : b < i
                /\ \A e \in ends : \A i \in Sends \cup loops : i < e
                /\ \A e \in ends : job.calls[e].time = job.total_samples
                /\ (job.phase = "finalize" \/ Succeeded) =>
                      /\ Cardinality(begins) = 1
                      /\ Cardinality(ends) = 1
                      /\ Cardinality(Sends) = Cardinality(ChipEvents)
C20_Witness ==
    /\ Succeeded
    /\ Sends # {}
    /\ \E name \in DOMAIN job.chips :
          /\ CallsOn("file_begin", name) # {}
          /\ CallsOn("loop_start", name) # {}
          /\ CallsOn("file_end", name) # {}

LoopStarts == {i \in 1..Len(job.calls) : job.calls[i].fn = "loop_start"}

\* C21: once the loop mark is recorded, the waits written before it sum to
\* loop_point, every event sent before it has a time below loop_point and
\* every event sent after it a time of loop_point or more; the mark and the
\* drivers' loop_start come together, once for each chip.
C21_LoopMark ==
    job.phase # "idle" =>
        /\ (job.loop_offset # -1) <=> (LoopStarts # {})
        /\ \A name \in DOMAIN job.chips : Cardinality(CallsOn("loop_start", name)) <= 1
        /\ job.loop_offset # -1 =>
              /\ \A name \in DOMAIN job.chips : CallsOn("loop_start", name) # {}
              /\ ~job.loop_on
              /\ StreamSamples(SubSeq(job.file.data, 1, job.loop_offset - VGM_HEADER_SIZE))
                    = job.loop_point
              /\ \A i \in Sends : \A l \in LoopStarts :
                    IF i < l THEN job.calls[i].time < job.loop_point
                    ELSE job.calls[i].time >= job.loop_point
C21_Witness ==
    /\ Succeeded
    /\ job.loop_offset > VGM_HEADER_SIZE
    /\ \E i, k \in Sends : \E l \in LoopStarts : i < l /\ l < k


\* C5: for every d in 0..200000 the bytes returned by generate_delay(d),
\* decoded as VGM waits (0x61 lo hi, 0x62 = 735, 0x63 = 882, 0x70+n = n+1),
\* sum to exactly d samples.
C5_DelayExact ==
    delay.returned => WaitSamples(delay.commands) = delay.duration

\* A delay that needs several commands (two long waits and a frame wait) was
\* encoded.
C5_Witness ==
    /\ delay.returned
    /\ delay.duration = 200000
    /\ Len(delay.commands) > 3

\* The events of time t among a sequence of inserted events, in call order.
RECURSIVE AtTime(_, _)
AtTime(s, t) ==
    IF s = <<>> THEN <<>>
    ELSE IF Head(s).time = t THEN <<Head(s)>> \o AtTime(Tail(s), t)
    ELSE AtTime(Tail(s), t)

RECURSIVE ByTime(_, _)
ByTime(s, t) ==
    IF t > MaxTime THEN <<>> ELSE AtTime(s, t) \o ByTime(s, t + 1)

\* C6: iteration yields every inserted event exactly once, in non-decreasing
\* time order, events of equal time in the order of their insertion.
C6_IterStable ==
    iter(queue.events) = ByTime(queue.inserted, 0)

\* Two different events of one time were inserted after an event of a later
\* time.
C6_Witness ==
    /\ Len(queue.inserted) >= 3
    /\ queue.inserted[1].time > queue.inserted[2].time
    /\ queue.inserted[2].time = queue.inserted[3].time
    /\ queue.inserted[2] # queue.inserted[3]

\* A job as it is after the input is read, with the text of every channel
\* but idx empty: new drivers, nothing compiled.
Alone(idx) ==
    [job EXCEPT !.channels = [c \in DOMAIN @ |-> IF c = idx THEN @[c]
                                                 ELSE [@[c] EXCEPT !.text = <<>>]],
                !.chips = [name \in DOMAIN @ |-> create_chip(name)],
                !.events = EmptyQueue, !.calls = <<>>, !.total_samples = 0,
                !.loop_on = FALSE, !.loop_point = 0, !.fast_forward = 0,
                !.compiled = {}, !.hung = FALSE]

\* compile_channel for the channels from idx on, in index order
RECURSIVE CompileFrom(_, _)
CompileFrom(j, idx) ==
    IF idx \notin DOMAIN j.channels \/ j.hung THEN j
    ELSE CHOOSE out \in {CompileFrom(c, idx + 1) : c \in {compile_channel(j, idx)}} : TRUE

\* The events queued for a channel, in the order of the queue
EventsOf(j, idx) == SelectSeq(iter(j.events), LAMBDA e : e.channel = idx)

Compiled == job.phase = "create" /\ job.compiled = DOMAIN job.channels

\* C22: the events compiled for a channel are those the channel's own text
\* gives with the same global definitions, whatever the other channels of
\* the chip hold.
C22_ChannelIndependent ==
    Compiled => \A idx \in DOMAIN job.channels :
                    EventsOf(job, idx) = EventsOf(CompileFrom(Alone(idx), 0), idx)

\* C23: for every channel text and every #RATE value the parser accepts,
\* compiling a channel comes to an end: compile_channel never enters a loop
\* that it does not leave.
C23_Terminates == job.phase # "idle" => ~job.hung

\* C24: after the channels are compiled no queued event has a time above
\* total_samples, so that the final delay of write_output is not below 0.
C24_EventsWithinTotal ==
    Compiled => \A t \in DOMAIN job.events : t <= job.total_samples

\* C25: in every finished file the samples of the wait commands of the data
\* section add up to the header's total_samples field, also when `@!` was
\* used.  (Stated for the programs on the PSG, whose data section is short.)
C25_WaitsSumToTotal ==
    (Succeeded /\ DOMAIN job.chips \subseteq {"PSG"}) =>
        StreamSamples(job.file.data) = U32(Field32(job.file.header, TOTAL_SAMPLES))

\* The calls of note_on and note_change for the notes of the channel texts
NoteCalls ==
    {i \in 1..Len(job.calls) : /\ job.calls[i].fn \in {"note_on", "note_change"}
                                /\ job.calls[i].step = "none"}

\* The sounding length of the note of a call
SoundingOf(c) == Max(c.len - (IF c.kind % 2 # 0 THEN 0 ELSE c.quantize), 0)

\* A call made for a step of an envelope
IsStep(k) == /\ job.calls[k].fn \in {"set_macro", "note_change"}
             /\ job.calls[k].step # "none"

\* The steps of the envelope of a macro type made for the note of call i:
\* the calls for steps that follow the call, up to the next other call
StepsOf(i, mac) ==
    LET others == {k \in (i + 1)..Len(job.calls) : ~IsStep(k)}
        last   == IF others = {} THEN Len(job.calls)
                  ELSE (CHOOSE k \in others : \A m \in others : k <= m) - 1
        steps  == SelectSeq(SubSeq(job.calls, i + 1, last), LAMBDA c : c.step = mac)
    IN  [k \in 1..Len(steps) |-> [time |-> steps[k].time, index |-> steps[k].index,
                                  value |-> steps[k].value]]

\* The steps of an envelope from index i at time t on, one per framerate
\* samples before `end`: after the last entry a looping envelope goes on
\* from loop_start, one without a loop stops.
RECURSIVE EnvelopeSteps(_, _, _, _)
EnvelopeSteps(env, i, t, end) ==
    IF t >= end \/ i < 0 \/ i >= Len(env.data) THEN <<>>
    ELSE <<[time |-> t, index |-> i, value |-> env.data[i + 1]]>>
         \o EnvelopeSteps(env, IF i + 1 < Len(env.data) THEN i + 1 ELSE env.loop_start,
                          t + job.framerate, end)

\* C26: for every note held for d samples from t with an envelope selected
\* for a macro type, set_macro is called for the envelope once per framerate
\* samples at t, t + framerate, ... below t + d, from index 0 for each note;
\* after the last entry the envelope goes on from its loop point, or makes
\* no more steps when it has none.
C26_EnvelopeSteps ==
    Compiled =>
        \A i \in NoteCalls : \A mac \in DynCommands :
            LET c == job.calls[i]
            IN  c.use[mac] # -1 =>
                    StepsOf(i, mac) = EnvelopeSteps(EnvOf(job, mac, c.use[mac]), 0, c.time,
                                                    c.time + SoundingOf(c))

\* A note was held over the end of a looping volume envelope and a later
\* note started the envelope again.
C26_Witness ==
    /\ Compiled
    /\ \E i, k \in NoteCalls :
          /\ i < k
          /\ job.calls[i].use["Volume"] = 0 /\ job.calls[k].use["Volume"] = 0
          /\ EnvOf(job, "Volume", 0).loop_start \in 1..(EnvOf(job, "Volume", 0).loop_end - 1)
          /\ Len(StepsOf(i, "Volume")) > EnvOf(job, "Volume", 0).loop_end
          /\ Len(StepsOf(k, "Volume")) > 0
          /\ StepsOf(k, "Volume")[1].index = 0

\* The steps of the arpeggio envelope during the note of call i, each with
\* the value of the note shifted by the step's entry
ArpeggioSteps(i) ==
    LET c     == job.calls[i]
        steps == EnvelopeSteps(EnvOf(job, "Arpeggio", c.use["Arpeggio"]), 0, c.time,
                               c.time + SoundingOf(c))
    IN  [k \in 1..Len(steps) |->
            [steps[k] EXCEPT !.value = NotePitch(c.chip, c.note + @, c.detune).v]]

\* C27: with an arpeggio envelope selected, every step of the envelope
\* during a held note, whatever its value, calls note_change with the pitch
\* of the note shifted by the value.
C27_ArpeggioSteps ==
    Compiled =>
        \A i \in NoteCalls :
            job.calls[i].use["Arpeggio"] # -1 => StepsOf(i, "Arpeggio") = ArpeggioSteps(i)

\* The same for the steps whose value is not 0
C27_NonZeroSteps ==
    Compiled =>
        \A i \in NoteCalls :
            LET c   == job.calls[i]
                env == EnvOf(job, "Arpeggio", c.use["Arpeggio"])
            IN  c.use["Arpeggio"] # -1 =>
                    StepsOf(i, "Arpeggio")
                        = SelectSeq(ArpeggioSteps(i), LAMBDA e : env.data[e.index + 1] # 0)

\* The channels that sound the m-th note of a phase group's line: a note
\* of the line is a sixteenth, 5512 samples at the default tempo.
Sounding(m) ==
    {job.calls[i].channel : i \in {c \in NoteCalls :
                                     job.calls[c].time = (m - 1) * calc_note_len(120, 16, 0)}}

\* C28: of the k channels of a phase group that compile the same notes, each
\* note is sounded by exactly one channel.
C28_PhaseGroup ==
    (Compiled /\ job.main = "phase") =>
        \A m \in 1..job.param.n : Cardinality(Sounding(m)) = 1

\* No note of a phase group is sounded by two channels.
C28_AtMostOne ==
    (Compiled /\ job.main = "phase") =>
        \A m \in 1..job.param.n : Cardinality(Sounding(m)) <= 1

\* The call for the next note of the channel after the note of call i; 0
\* when the note is the channel's last
NextNote(i) ==
    LET later == {k \in NoteCalls : k > i /\ job.calls[k].channel = job.calls[i].channel}
    IN  IF later = {} THEN 0 ELSE CHOOSE k \in later : \A m \in later : k <= m

\* The note_off calls made for the note of call i: those between the call
\* and the call for the channel's next note
NoteOffs(i) ==
    {k \in (i + 1)..(IF NextNote(i) = 0 THEN Len(job.calls) ELSE NextNote(i) - 1) :
        job.calls[k].fn = "note_off" /\ job.calls[k].channel = job.calls[i].channel}

\* C29: when `&` stands between two notes no note_off is called for the
\* first, the second is sent with note_change, and the second's own note_off
\* is called as for any note that is not slurred or tied itself: in mode 0 at
\* its start plus its sounding length, in mode 1 at the start of the note
\* that follows it.
C29_Slur ==
    Compiled =>
        \A i \in NoteCalls :
            LET c == job.calls[i]
                k == NextNote(i)
                n == job.calls[k]
                f == NextNote(k)
            IN  (c.kind % 2 = 1 /\ k # 0 /\ n.time = c.next /\ n.mode = c.mode) =>
                    /\ NoteOffs(i) = {}
                    /\ n.fn = "note_change"
                    /\ (n.kind % 4 = 0 /\ n.mode = 0) =>
                          /\ Cardinality(NoteOffs(k)) = 1
                          /\ \A o \in NoteOffs(k) :
                                job.calls[o].time = n.time + SoundingOf(n)
                    /\ (n.kind % 4 = 0 /\ n.mode = 1 /\ f # 0) =>
                          /\ Cardinality(NoteOffs(k)) = 1
                          /\ \A o \in NoteOffs(k) : job.calls[o].time = job.calls[f].time

\* A first note slurred into a second one with a quantize set, and the
\* second's note_off called
C29_Witness ==
    /\ Compiled
    /\ \E i \in NoteCalls :
          /\ job.calls[i].fn = "note_on" /\ job.calls[i].kind % 2 = 1
          /\ job.calls[i].quantize > 0 /\ job.calls[i].mode = 0
          /\ NextNote(i) # 0
          /\ job.calls[NextNote(i)].fn = "note_change"
          /\ NoteOffs(NextNote(i)) # {}

\* C30: in note-off mode 0 every note sent without slur or legato at time t
\* has its note_off called at t + d, d = max(0, note length - quantize), and
\* the channel's time is then t plus the whole note length.
C30_NoteOff ==
    Compiled =>
        \A i \in NoteCalls :
            LET c == job.calls[i]
            IN  (c.mode = 0 /\ c.kind % 4 = 0) =>
                    /\ Cardinality(NoteOffs(i)) = 1
                    /\ \A o \in NoteOffs(i) :
                          job.calls[o].time = c.time + Max(0, c.len - c.quantize)
                    /\ c.next = c.time + c.len

\* A channel with a quantize between the lengths of its two notes: the
\* first note's note_off is at its start, the second's before its end.
C30_Witness ==
    /\ Compiled
    /\ \E i, k \in NoteCalls :
          /\ job.calls[i].mode = 0 /\ job.calls[i].kind = 0 /\ job.calls[k].kind = 0
          /\ k = NextNote(i)
          /\ job.calls[i].quantize > job.calls[i].len
          /\ job.calls[k].quantize > 0 /\ job.calls[k].quantize < job.calls[k].len
          /\ \E o \in NoteOffs(i) : job.calls[o].time = job.calls[i].time
          /\ \E o \in NoteOffs(k) :
                job.calls[o].time = job.calls[k].time + job.calls[k].len
                                    - job.calls[k].quantize
          /\ job.calls[k].time = job.calls[i].time + job.calls[i].len

\* The register a shadow entry of the YM2612 or YM3812 driver stands for, as
\* the command and register byte of the data section's write to it.
Opn2HwKey(address) ==
    <<(IF Bit(address, 9) # 0 THEN 162 ELSE 82) + Bit(address, 8), address % 256>>
Opl2HwKey(k) == <<IF k[1] # 0 THEN 170 ELSE 90, U8(k[2])>>

\* C31: in every driver, after file_begin and any sends, each shadow entry
\* that is not "unknown" equals the value the data section last wrote to its
\* hardware register (for the SN76489 the stereo shadow equals the last byte
\* written to the GG stereo port, 0xFF on a chip never written to).
C31_ShadowIsLastWritten ==
    drv.phase = "begun" =>
        IF drv.chip = "PSG"
        THEN \A c \in 0..1 : drv.st.stereo[c] = drv.hw.stereo[c]
        ELSE IF drv.chip = "OPN2"
        THEN \A a \in DOMAIN drv.st.mem :
                /\ Opn2HwKey(a) \in DOMAIN drv.hw
                /\ drv.st.mem[a] = drv.hw[Opn2HwKey(a)]
        ELSE \A k \in DOMAIN drv.st.memory :
                /\ Opl2HwKey(k) \in DOMAIN drv.hw
                /\ drv.st.memory[k] = drv.hw[Opl2HwKey(k)]

\* The same for the YM2612 and YM3812 drivers alone.
C31_FmShadows ==
    (drv.phase = "begun" /\ drv.chip = "PSG") \/ C31_ShadowIsLastWritten

(***************************************************************************)
(* chips/huc6280.rs                                                        *)
(*                                                                         *)
(* memory keeps its written entries only (-1 where nothing was written);   *)
(* memw is the set of the entries whose flag is true.  A write request     *)
(* carries the chip, the channel and the register it is meant for beside   *)
(* the bytes of the data section.  The waveform events 7 and 8 are not     *)
(* among the events sent.                                                  *)
(***************************************************************************)
HUC6280_DEFAULT_CLOCK == 3579545

MAXSUB == [s \in 0..2 |-> <<6, 1, 2>>[s + 1]]

\* HuC6280::new
HuC6280New ==
    [clock  |-> HUC6280_DEFAULT_CLOCK, dual |-> FALSE,
     usesub |-> [s \in 0..2 |-> 0],
     assign |-> [i \in 0..11 |-> <<0, 0>>],
     memory |-> <<>>, memw |-> {},
     mult   |-> [c \in 0..1 |-> 4],
     fixfm  |-> [c \in 0..1 |-> FALSE]]

\* writer.write_data(&[0xB9, ((chip << 7) | addr) as u8, val as u8])
HucWrite(chip, chan, addr, val) ==
    [bytes |-> <<185, U8(BitOr(Shl(chip, 7), addr)), U8(val)>>,
     chip |-> chip, chan |-> chan, addr |-> addr, val |-> val]

\* HuC6280::mem_write (the channel select is the nested call
\* mem_write(chip, 0, 0, chan), whose own condition holds where it is made)
mem_write(st, chip, chan, addr, val) ==
    LET per  == addr >= 2 /\ addr <= 7
        actual_chan == IF per THEN chan ELSE 0
        idx  == chip * 6 + actual_chan
        go   == \/ Shadow(st.memory, <<idx, addr>>) # val
                \/ addr = 6
                \/ <<idx, addr>> \in st.memw
        sel  == per /\ Shadow(st.memory, <<chip * 6, 0>>) # chan
        s1   == [st EXCEPT !.memw = @ \ {<<idx, addr>>}]
        s2   == IF sel
                THEN [s1 EXCEPT !.memw = @ \ {<<chip * 6, 0>>},
                                !.memory = SetShadow(@, <<chip * 6, 0>>, chan)]
                ELSE s1
    IN  IF go
        THEN [st   |-> [s2 EXCEPT !.memory = SetShadow(@, <<idx, addr>>, val)],
              reqs |-> (IF sel THEN <<HucWrite(chip, 0, 0, chan)>> ELSE <<>>)
                       \o <<HucWrite(chip, actual_chan, addr, val)>>]
        ELSE [st |-> st, reqs |-> <<>>]

\* A run of mem_write calls, writes = <<chip, chan, addr, val>> in program
\* order.
RECURSIVE HucWriteAll(_, _, _)
HucWriteAll(st, writes, reqs) ==
    IF writes = <<>> THEN [st |-> st, reqs |-> reqs]
    ELSE CHOOSE out \in
           {HucWriteAll(r.st, Tail(writes), r.reqs) :
               r \in {[st   |-> w.st, reqs |-> reqs \o w.reqs] :
                        w \in {mem_write(st, Head(writes)[1], Head(writes)[2],
                                         Head(writes)[3], Head(writes)[4])}}} : TRUE

\* HuC6280::start_channel_with_info
HucStartChannelWithInfo(st, chip_sub, chan_sub) ==
    [st EXCEPT !.dual = @ \/ chan_sub >= MAXSUB[chip_sub],
               !.usesub[chip_sub] = IF @ <= chan_sub THEN chan_sub + 1 ELSE @]

\* HuC6280::file_begin: the channel assignments
HucAssign(st) ==
    LET u   == st.usesub
        tab == <<<<0, 2>>, <<0, 3>>>>
               \o (IF u[1] < 1 THEN <<<<0, 0>>, <<0, 1>>>> ELSE <<>>)
               \o (IF u[2] < 1 THEN <<<<0, 4>>>> ELSE <<>>)
               \o (IF u[2] < 2 THEN <<<<0, 5>>>> ELSE <<>>)
               \o <<<<1, 2>>, <<1, 3>>>>
               \o (IF u[1] < 2 THEN <<<<1, 0>>, <<1, 1>>>> ELSE <<>>)
               \o (IF u[2] < 3 THEN <<<<1, 4>>>> ELSE <<>>)
               \o (IF u[2] < 4 THEN <<<<1, 5>>>> ELSE <<>>)
    IN  [i \in 0..11 |-> IF i < Len(tab) THEN tab[i + 1] ELSE st.assign[i]]

\* HuC6280::file_begin: the writes that initialize chip c
HucInitWrites(st, c) ==
    <<<<c, 0, 1, 255>>, <<c, 0, 9, IF st.usesub[1] > c THEN 128 ELSE 0>>>>
    \o Flatten([ch \in 1..6 |-> <<<<c, ch - 1, 4, 0>>, <<c, ch - 1, 5, 255>>>>])
    \o <<<<c, 4, 7, IF st.usesub[2] <= c * 2 THEN 128 ELSE 0>>,
         <<c, 5, 7, IF st.usesub[2] <= c * 2 + 1 THEN 128 ELSE 0>>>>

\* HuC6280::file_begin
HucFileBegin(st) ==
    LET dual == st.dual \/ st.usesub[0] > 6 - (st.usesub[1] * 2 + st.usesub[2])
        s1   == [st EXCEPT !.memory = <<>>, !.memw = {},
                           !.mult = [c \in 0..1 |-> 4],
                           !.fixfm = [c \in 0..1 |-> FALSE],
                           !.dual = dual,
                           !.assign = HucAssign(st)]
    IN  HucWriteAll(s1, HucInitWrites(st, 0)
                        \o (IF dual THEN HucInitWrites(st, 1) ELSE <<>>), <<>>)

\* HuC6280::loop_start
HucLoopStart(st) ==
    [st EXCEPT !.memw = {<<i, j>> : i \in 0..11, j \in 0..9}]

\* HuC6280::set_macro, note_on, note_off, direct
HucSetMacro(command, value) ==
    IF command = "Volume" THEN <<ChipEvent(3, value % 32, 0)>>
    ELSE IF command = "Panning"
    THEN <<ChipEvent(4, IF value < 0 THEN BitXor(255, -value)
                        ELSE BitXor(255, Shl(value, 4)), 0)>>
    ELSE IF command = "Tone" THEN <<ChipEvent(5, value, 0)>>
    ELSE IF command = "Multiply" THEN <<ChipEvent(6, value, 0)>>
    ELSE IF command = "Global" THEN <<ChipEvent(9, value, 0)>>
    ELSE <<>>
HucNoteOn(note) == <<ChipEvent(2, note, 0)>>
HucNoteOff == <<ChipEvent(1, 0, 0)>>
HucDirect(address, value) == <<ChipEvent(0, address, value)>>

\* self.memory[chip * 6 + chan][4].max(0)
HucCurrent(st, chip, chan) == Max(Shadow(st.memory, <<chip * 6 + chan, 4>>), 0)

\* HuC6280::send, event type 2: the writes of a note before the key on
\* (none of them is to register 4, which the key on reads)
HucNoteWrites(st, cs, chip, chan, w) ==
    LET v0   == IF st.fixfm[chip] THEN 256 ELSE w
        mult == st.mult[chip]
        v    == IF Bit(mult, 0) # 0 THEN Shr(v0, 2)
                ELSE IF Bit(mult, 1) # 0 THEN Shr(v0, 1) ELSE v0
        m    == IF Bit(mult, 0) # 0 THEN mult
                ELSE IF Bit(mult, 1) # 0 THEN Shr(mult, 1) ELSE Shr(mult, 2)
    IN  (IF cs = 1
         THEN <<<<chip, 0, 8, m>>, <<chip, 1, 2, v % 256>>, <<chip, 1, 3, Shr(v, 8)>>>>
         ELSE <<>>)
        \o (IF cs = 2 THEN <<<<chip, chan, 7, BitOr(w, 128)>>>>
            ELSE <<<<chip, chan, 2, w % 256>>, <<chip, chan, 3, Shr(w, 8)>>>>)

\* HuC6280::send (send_with_macro_env hands every event but 7 and 8 to it)
HucSend(st, event, chip_sub, chan_sub) ==
    LET cs   == chip_sub
        ca   == chan_sub
        chip == IF cs # 0 THEN ca \div cs ELSE st.assign[ca][1]
        chan == IF cs # 0 THEN (IF cs = 2 THEN BitOr(4, BitAnd(ca, 5)) ELSE 0)
                ELSE st.assign[ca][2]
        v    == event.value1
        ty   == event.event_type
    IN  IF ty = 0
        THEN mem_write(st, chip, Shr(v, 4), v % 16, event.value2)
        ELSE IF ty = 1
        THEN mem_write(st, chip, chan, 4, BitOr(BitAnd(HucCurrent(st, chip, chan), 31), 64))
        ELSE IF ty = 2
        THEN HucWriteAll(st, HucNoteWrites(st, cs, chip, chan, v)
                             \o <<<<chip, chan, 4,
                                    BitOr(BitAnd(HucCurrent(st, chip, chan), 31), 128)>>>>,
                         <<>>)
        ELSE IF ty = 3
        THEN mem_write(st, chip, chan, 4, BitOr(BitAnd(HucCurrent(st, chip, chan), 192), v))
        ELSE IF ty = 4 THEN mem_write(st, chip, chan, 5, v)
        ELSE IF ty = 5
        THEN LET r == mem_write(st, chip, 0, 9, v % 4)
             IN  [st |-> [r.st EXCEPT !.fixfm[chip] = Shr(v, 2) # 0], reqs |-> r.reqs]
        ELSE IF ty = 6 THEN [st |-> [st EXCEPT !.mult[ca] = v], reqs |-> <<>>]
        ELSE IF ty = 9
        THEN HucWriteAll(st, <<<<0, 0, 1, v>>>>
                             \o (IF st.dual THEN <<<<1, 0, 1, v>>>> ELSE <<>>), <<>>)
        ELSE [st |-> st, reqs |-> <<>>]

(***************************************************************************)
(* The HuC6280 driver between file_begin and file_end                      *)
(*                                                                         *)
(* drv holds the driver (st) and the write requests it made since          *)
(* file_begin or, once the loop point is passed, since loop_start (log).   *)
(***************************************************************************)
MaxHucSends == 3

\* The channels of `#EX-HuC6280`: two wave channels, or two wave channels
\* and an FM channel, as <<chip_sub, chan_sub>>.
HucPrograms == {<<<<0, 0>>, <<0, 1>>>>, <<<<0, 0>>, <<0, 1>>, <<1, 0>>>>}

RECURSIVE HucStartAll(_, _)
HucStartAll(st, chans) ==
    IF chans = <<>> THEN st
    ELSE HucStartAll(HucStartChannelWithInfo(st, Head(chans)[1], Head(chans)[2]),
                     Tail(chans))

HucEvents ==
    LET one(s) == {s[i] : i \in 1..Len(s)} IN
    UNION {one(HucNoteOn(n)) : n \in {254, 428}}
    \cup one(HucNoteOff)
    \cup UNION {one(HucSetMacro("Volume", v)) : v \in {31}}
    \cup UNION {one(HucSetMacro("Panning", v)) : v \in {-1}}

HucInit ==
    drv \in {[phase |-> "new", chip |-> "HuC6280", chans |-> chans,
              st |-> HucStartAll(HuC6280New, chans), log |-> <<>>,
              looped |-> FALSE, sends |-> 0] : chans \in HucPrograms}

\* write_output: file_begin of the chip
HucBegin ==
    /\ drv.phase = "new"
    /\ LET r == HucFileBegin(drv.st)
       IN  drv' = [drv EXCEPT !.phase = "begun", !.st = r.st, !.log = r.reqs]
    /\ UNCHANGED <<delay, queue, job, tag>>

\* write_output: one chip event of a channel handed to send_with_macro_env
HucSendEvent ==
    /\ drv.phase = "begun"
    /\ drv.sends < MaxHucSends
    /\ \E e \in HucEvents, i \in 1..Len(drv.chans) :
         LET r == HucSend(drv.st, e, drv.chans[i][1], drv.chans[i][2])
         IN  drv' = [drv EXCEPT !.st = r.st, !.log = @ \o r.reqs, !.sends = @ + 1]
    /\ UNCHANGED <<delay, queue, job, tag>>

\* write_output: loop_start of the chip when the loop point is reached
HucLoop ==
    /\ drv.phase = "begun"
    /\ ~drv.looped
    /\ drv' = [drv EXCEPT !.st = HucLoopStart(@), !.looped = TRUE, !.log = <<>>]
    /\ UNCHANGED <<delay, queue, job, tag>>

InitHuc == HucInit /\ delay = DelayIdle /\ queue = QueueIdle /\ job = JobIdle /\ tag = TagIdle
NextHuc == HucBegin \/ HucSendEvent \/ HucLoop
SpecHuc == InitHuc /\ [][NextHuc]_vars

\* The per-channel registers of the HuC6280
HucPerChannel == 2..7

\* C39: in the HuC6280 driver, after loop_start the first write to a
\* per-channel register (2..7) of a channel comes after a channel-select
\* write (register 0) for that channel made since loop_start, whatever
\* channel was selected before the loop point.
C39_SelectAfterLoop ==
    (drv.phase = "begun" /\ drv.looped) =>
        \A i \in 1..Len(drv.log) :
            LET w == drv.log[i]
            IN  (/\ w.addr \in HucPerChannel
                 /\ \A k \in 1..(i - 1) :
                       ~(/\ drv.log[k].addr \in HucPerChannel
                         /\ drv.log[k].chip = w.chip
                         /\ drv.log[k].chan = w.chan))
                => \E k \in 1..(i - 1) :
                      /\ drv.log[k].addr = 0
                      /\ drv.log[k].chip = w.chip
                      /\ drv.log[k].val = w.chan

\* The envelopes that parse_envelope has stored
Stored == {job.macro_env[k] : k \in DOMAIN job.macro_env}

\* C33: after parsing any envelope definition the stored envelope has
\* loop_start = -1 or 0 <= loop_start < length.
C33_LoopStartInside ==
    job.phase # "idle" =>
        \A env \in Stored :
            env.loop_start = -1 \/ (0 <= env.loop_start /\ env.loop_start < env.loop_end)

\* C34: for any envelope body the stored envelope never exceeds 2048
\* entries, its data length always equals loop_end, and the tokens that
\* would write past 2048 entries are dropped without an error: reading
\* fails only where a block is opened with every slot of the block stack
\* in use.
C34_EnvelopeBounded ==
    job.phase # "idle" =>
        /\ \A env \in Stored :
              /\ Len(env.data) <= MAX_ENVELOPE_DATA
              /\ Len(env.data) = env.loop_end
        /\ job.result # "none" => (job.panic /\ job.env_block = 32)

\* A definition of 1030 entries, a line that asks for 2060 more, and a
\* third line read after it: the envelope holds 2048 entries, the last of
\* them from the second line, and reading ended without an error.
C34_Witness ==
    /\ job.phase = "create" /\ job.result = "none"
    /\ job.main = "definition"
    /\ job.param.first = <<Rep(1030), Num(5)>>
    /\ job.param.second = DataLine(<<Rep(1030), Num(6), Num(7)>>)
    /\ job.param.third = DataLine(<<Num(4)>>)
    /\ \E env \in Stored :
          /\ env.loop_end = MAX_ENVELOPE_DATA
          /\ env.data[1030] = 5 /\ env.data[1031] = 6 /\ env.data[MAX_ENVELOPE_DATA] = 6

\* C40: while envelope bodies are parsed no slot outside the 32 slots of
\* env_brep and env_bst is read or written, for any number of `[`.
C40_BlockSlots == job.phase # "idle" => ~job.panic

\* C32: every event inserted into the event queue has a time of 0 or more,
\* whatever numbers the channel text gives to `@w`, `@q` and the note
\* lengths.
C32_EventTimes ==
    job.phase # "idle" => \A t \in DOMAIN job.events : t >= 0

\* C35: parsing terminates for every finite set of input files, also when
\* an #INCLUDE chain refers back to a file that is being parsed: read_input
\* does not enter a file that it is parsing already, so that the nesting of
\* read_input stays within the number of files.
C35_IncludeTerminates ==
    job.phase = "read" =>
        \A a, b \in 1..Len(job.frames) :
            job.frames[a].file = job.frames[b].file => a = b

\* The events of a channel without the channel's index
Anonymous(es) == [i \in DOMAIN es |-> [es[i] EXCEPT !.channel = 0]]

\* The two channels of the program have the same events and the same
\* duration.
SameAsWithout ==
    /\ Anonymous(EventsOf(job, 0)) = Anonymous(EventsOf(job, 1))
    /\ job.channels[0].duration = job.channels[1].duration

\* C36: a character of a channel text that is no command is skipped, that
\* one byte and no more, and the bytes after it are compiled as they are
\* when the character is absent.
C36_UnknownSkipped ==
    (Compiled /\ job.main = "unknown") => SameAsWithout

\* The same for the characters below `@` alone.
C36_BelowAtSkipped ==
    (Compiled /\ job.main = "unknown" /\ job.param.u \in {";", " "}) => SameAsWithout

\* The number of note_on calls for a note of the octave (c is 0, d is 2)
NotesOn(note) ==
    Cardinality({i \in DOMAIN job.calls :
                    job.calls[i].fn = "note_on" /\ job.calls[i].note % OCTAVE_COUNT = note})

\* C37: in a counted loop `[X \ Y]n` with n >= 1 the part X before the
\* break is compiled n times and the part Y after it n - 1 times (it is
\* skipped on the last pass only).
C37_LoopBreak ==
    (Compiled /\ job.main = "break") =>
        /\ NotesOn(0) = job.param.n
        /\ NotesOn(2) = job.param.n - 1

\* The part before the break alone: it is compiled n times.
C37_BeforeBreak ==
    (Compiled /\ job.main = "break") => NotesOn(0) = job.param.n

\* Another way to wait d samples: the longest 16-bit wait while more than
\* 65535 samples are left, then the commands generate_delay gives for what
\* is left.
RECURSIVE LongestFirst(_)
LongestFirst(d) ==
    IF d > 65535 THEN <<WAIT_NNNN, 255, 255>> \o LongestFirst(d - 65535)
    ELSE generate_delay(d)

\* C38: for every d the commands of generate_delay(d) take the fewest
\* bytes: no sequence of wait commands that waits exactly d samples is
\* shorter, the sequence that starts with the longest 16-bit waits among
\* them.
C38_DelayMinimal ==
    delay.returned =>
        (WaitSamples(LongestFirst(delay.duration)) = delay.duration
            => Len(delay.commands) <= Len(LongestFirst(delay.duration)))

\* The same for the durations that one 16-bit wait covers.
C38_MinimalWithin16Bits ==
    (delay.returned /\ delay.duration <= 65535) =>
        Len(delay.commands) =
            IF delay.duration = 0 THEN 0
            ELSE IF delay.duration <= 16 \/ delay.duration \in {735, 882} THEN 1
            ELSE IF \/ delay.duration <= 32
                    \/ InRange(delay.duration, 736, 751)
                    \/ InRange(delay.duration, 883, 898)
                    \/ delay.duration \in {1470, 1617, 1764}
            THEN 2
            ELSE 3

====
